---------------------------- MODULE Spec2Model ----------------------------
(***************************************************************************)
(* Model of glidea/llm-structed: the schema derivation (typeToSchema), the *)
(* per-client schema cache and the retry loop of client.Do, the wire form  *)
(* of a schema (convertToOpenAISchema) and openai.Completions.             *)
(*                                                                         *)
(* Specifications: Spec (sequential Do calls on one client), SpecConc (two *)
(* goroutines calling Do on one client), SpecSchema (typeToSchema and      *)
(* convertToOpenAISchema on the record types of a program), SpecLLM (one   *)
(* call of openai.Completions), SpecPair (two calls of openai.Completions  *)
(* with the same arguments), SpecMethods (the convenience methods),        *)
(* SpecNew (New), SpecProgram (clients made by New, then Do on them),      *)
(* SpecCancelled (Do under a context cancelled from the start).            *)
(*                                                                         *)
(* Conventions.                                                            *)
(*  - A Go string that the code splits or indexes (a struct tag) is a       *)
(*    sequence of tokens, every token either the separator "," or a         *)
(*    comma-free piece: `name,omitempty` is <<"name", ",", "omitempty">>,   *)
(*    the empty string is <<>>.                                             *)
(*  - An optional value (a nil-able pointer, a nil error) is a sequence of  *)
(*    length 0 (nil) or 1.                                                  *)
(*  - A reflect.Type is a record [Kind, Name, Elem, Fields]; Elem is the    *)
(*    optional element type, Fields the declared fields in order.           *)
(***************************************************************************)
EXTENDS Integers, Sequences, FiniteSets, TLC

VARIABLES
    retry,        \* client.retry, per client                (client.go:61)
    schemaCache,  \* client.schemaCache, per client          (client.go:62)
    reflected,    \* calls of typeToSchema made by Do, per client and type
    derived,      \* the first schema typeToSchema returned, per client and type
    hits,         \* Loads that found the type's schema, per client and type
    doCount,      \* Do calls started so far (bounded by MaxDo)
    pc,           \* position of each goroutine inside Do
    cli,          \* the client a goroutine's Do was called on
    ret,          \* Do's argument ret: its dynamic type and nil-ness
    target,       \* the value ret points to (the caller's record)
    target0,      \* the value ret pointed to when Do was called
    sche,         \* Do's local sche                         (client.go:173)
    i,            \* Do's loop counter                        (client.go:191)
    lastErr,      \* Do's local lastErr                       (client.go:185)
    calls,        \* Completions calls made by this Do
    decodes,      \* texts this Do handed to json.Unmarshal
    okAt,         \* the attempt that completed and decoded (0: none so far)
    lastOut,      \* what the latest Completions call returned (optional)
    seen,         \* the different results Completions returned to this Do
    passed,       \* responseSchema argument of the latest Completions call
    result,       \* what Do returned: <<>> (nil) or <<error>>
    rtype,        \* the reflect.Type typeToSchema is called with (optional)
    schemaOut,    \* what typeToSchema returned for it (optional)
    wire,         \* what convertToOpenAISchema made of that schema (optional)
    config,       \* openai.config                            (llm.go:49)
    messages,     \* Completions' argument messages
    responseSchema, \* Completions' argument responseSchema
    lpc,          \* position inside Completions
    reqBody,      \* Completions' local reqBody (optional)     (llm.go:71)
    posts,        \* the requests handed to o.hc.Do, in order
    resp,         \* what o.hc.Do returned (optional)          (llm.go:121)
    completion,   \* what Completions returned (optional)
    ranged,       \* the order this call's range loops visited map keys in (optional)
    sink,         \* what was printed to standard output, in order
    prev,         \* the earlier Completions call of the same openai (optional)
    method,       \* the convenience method the caller is in ("none": in none)
    methodOut,    \* what that method returned: value and error (optional)
    given,        \* the Config of the latest New call (optional)
    made          \* what that New call returned: client and error (optional)

\* The state client.Do works on.
doVars == <<retry, schemaCache, reflected, derived, hits, doCount, pc, cli, ret, target,
            target0, sche, i, lastErr, calls, decodes, okAt, lastOut, seen, passed, result>>

\* The state of one typeToSchema / convertToOpenAISchema computation.
schemaVars == <<rtype, schemaOut, wire>>

\* The state of one openai.Completions call.
llmVars == <<config, messages, responseSchema, lpc, reqBody, posts, resp, completion,
             ranged, sink, prev>>

\* The state of one call of a convenience method, and of one call of New.
apiVars == <<method, methodOut, given, made>>

vars == <<doVars, schemaVars, llmVars, apiVars>>

-----------------------------------------------------------------------------
(* Bounds of the model *)

\* Largest small retry count a client is configured with.
MaxRetry == 2

\* Number of Do calls in one behaviour.
MaxDo == 3

\* The largest value of Go's int (GOARCH with 32-bit int); retries+1 wraps here.
MaxInt == 2147483647

MinInt == -MaxInt - 1

\* The clients a program constructs with New; each has its own retry count and
\* its own schemaCache.
Clients == {"c1", "c2"}

\* The client that exists from the start.
First == "c1"

\* The goroutines that call Do.
Procs == {"g1", "g2"}

\* The goroutine of a sequential program.
Main == "g1"

-----------------------------------------------------------------------------
(* Strings as token sequences *)

Str(s) == <<s>>

Empty == <<>>

RECURSIVE Index(_, _, _)
\* strings.Index(s, sep) for a one-token separator, scanning from position k;
\* 0 stands for Go's -1 (positions are 1-based here).
Index(s, sep, k) ==
    IF k > Len(s) THEN 0
    ELSE IF s[k] = sep THEN k
    ELSE Index(s, sep, k + 1)

RECURSIVE Split(_, _)
\* strings.Split(s, ","): the pieces between separators; a piece is itself a
\* token sequence (possibly empty).
Split(s, sep) ==
    LET c == Index(s, sep, 1)
    IN IF c = 0 THEN <<s>>
       ELSE <<SubSeq(s, 1, c - 1)>> \o Split(SubSeq(s, c + 1, Len(s)), sep)

-----------------------------------------------------------------------------
(* reflect.Type values *)

Prim(kind) == [Kind |-> kind, Name |-> kind, Elem |-> <<>>, Fields |-> <<>>]

PtrTo(t) == [Kind |-> "ptr", Name |-> "*", Elem |-> <<t>>, Fields |-> <<>>]

SliceOf(t) == [Kind |-> "slice", Name |-> "[]", Elem |-> <<t>>, Fields |-> <<>>]

MapOf(t) == [Kind |-> "map", Name |-> "map[string]", Elem |-> <<t>>, Fields |-> <<>>]

StructOf(name, fields) == [Kind |-> "struct", Name |-> name, Elem |-> <<>>, Fields |-> fields]

\* reflect.StructField: Name, PkgPath (non-empty for an unexported field), the
\* three tags the code reads, and the field's type.
Field(name, pkgPath, jsonTag, descTag, enumTag, type) ==
    [Name |-> name, PkgPath |-> pkgPath, json |-> jsonTag, desc |-> descTag,
     enum |-> enumTag, Type |-> type]

-----------------------------------------------------------------------------
(* The Schema Model and typeToSchema *)

schemaTypeString == "string"
schemaTypeNumber == "number"
schemaTypeInteger == "integer"
schemaTypeBoolean == "boolean"
schemaTypeArray == "array"
schemaTypeObject == "object"

\* &schema{Type: ty}: every other field has its zero value.
NewSchema(ty) ==
    [Type |-> ty, Description |-> Empty, Enum |-> <<>>, ArrayItems |-> <<>>,
     ObjectProperties |-> <<>>]

\* An error value: its message, the detail formatted into it, the raw text a
\* decode error quotes (optional), and the attempt that produced it (0 when it
\* was not produced by an attempt); two errors made by different attempts are
\* different error values.
Err(msg, detail, raw, attempt) ==
    [msg |-> msg, detail |-> detail, raw |-> raw, attempt |-> attempt]

Ok(s) == [schema |-> <<s>>, err |-> <<>>]

Fail(e) == [schema |-> <<>>, err |-> <<e>>]

IntKinds == {"int", "int8", "int16", "int32", "int64",
             "uint", "uint8", "uint16", "uint32", "uint64"}

RECURSIVE Deref(_)
\* for t.Kind() == reflect.Ptr { t = t.Elem() }
Deref(t) == IF t.Kind = "ptr" THEN Deref(t.Elem[1]) ELSE t

\* FieldName without the cut at the comma: the whole json tag is the name.
FieldNameWholeTag(field) ==
    IF field.json # Empty THEN field.json ELSE Str(field.Name)

\* The visible name of a field: the json tag up to its first comma, the whole
\* tag when it has no comma, the declared name when the tag is empty.
FieldName(field) ==
    LET jsonTag == field.json
        comma == Index(jsonTag, ",", 1)
    IN IF jsonTag # Empty
       THEN IF comma # 0 THEN SubSeq(jsonTag, 1, comma - 1) ELSE jsonTag
       ELSE Str(field.Name)

\* FieldEnum without the test of the schema's type: any tagged field gets one.
FieldEnumAnyKind(s, field) ==
    IF field.enum # Empty THEN Split(field.enum, ",") ELSE s.Enum

\* The enum a field's schema gets: only a string schema, only a non-empty tag.
FieldEnum(s, field) ==
    IF s.Type = schemaTypeString /\ field.enum # Empty
    THEN Split(field.enum, ",")
    ELSE s.Enum

\* properties[name] = s
MapPut(m, k, v) == [x \in (DOMAIN m) \cup {k} |-> IF x = k THEN v ELSE m[x]]

RECURSIVE typeToSchema(_)
RECURSIVE structFields(_, _, _)

RECURSIVE structFieldsUnexported(_, _, _)
\* structFields without the PkgPath test: unexported fields are not skipped.
structFieldsUnexported(t, idx, properties) ==
    IF idx > Len(t.Fields)
    THEN Ok([NewSchema(schemaTypeObject) EXCEPT !.ObjectProperties = properties])
    ELSE LET field == t.Fields[idx]
         IN IF field.json = Str("-")
            THEN structFieldsUnexported(t, idx + 1, properties)
            ELSE LET r == typeToSchema(field.Type)
                 IN IF r.err # <<>>
                    THEN r
                    ELSE LET s0 == r.schema[1]
                             s == [s0 EXCEPT !.Description = field.desc,
                                             !.Enum = FieldEnum(s0, field)]
                         IN structFieldsUnexported(t, idx + 1,
                                                   MapPut(properties, FieldName(field), s))

\* The body of `for i := 0; i < t.NumField(); i++` from field idx on.
structFields(t, idx, properties) ==
    IF idx > Len(t.Fields)
    THEN Ok([NewSchema(schemaTypeObject) EXCEPT !.ObjectProperties = properties])
    ELSE LET field == t.Fields[idx]
         IN IF field.PkgPath # ""
            THEN structFields(t, idx + 1, properties)
            ELSE IF field.json = Str("-")
            THEN structFields(t, idx + 1, properties)
            ELSE LET r == typeToSchema(field.Type)
                 IN IF r.err # <<>>
                    THEN r
                    ELSE LET s0 == r.schema[1]
                             s == [s0 EXCEPT !.Description = field.desc,
                                             !.Enum = FieldEnum(s0, field)]
                         IN structFields(t, idx + 1,
                                         MapPut(properties, FieldName(field), s))

typeToSchema(t0) ==
    LET t == Deref(t0)
    IN CASE t.Kind = "string" -> Ok(NewSchema(schemaTypeString))
         [] t.Kind \in {"float32", "float64"} -> Ok(NewSchema(schemaTypeNumber))
         [] t.Kind \in IntKinds -> Ok(NewSchema(schemaTypeInteger))
         [] t.Kind = "bool" -> Ok(NewSchema(schemaTypeBoolean))
         [] t.Kind \in {"slice", "array"} ->
              LET r == typeToSchema(t.Elem[1])
              IN IF r.err # <<>>
                 THEN r
                 ELSE Ok([NewSchema(schemaTypeArray) EXCEPT !.ArrayItems = r.schema])
         [] t.Kind = "struct" -> structFields(t, 1, <<>>)
         [] OTHER -> Fail(Err("unsupported type", t.Kind, <<>>, 0))

-----------------------------------------------------------------------------
(* The record types and targets Do is called with *)

\* struct { Message string `json:"message"`; Score int `json:"score"` }
Reply ==
    StructOf("Reply",
             <<Field("Message", "", Str("message"), Empty, Empty, Prim("string")),
               Field("Score", "", Str("score"), Empty, Empty, Prim("int"))>>)

\* struct { Value int }                                      (client.go:257)
intResponse ==
    StructOf("intResponse",
             <<Field("Value", "", Empty, Empty, Empty, Prim("int"))>>)

\* struct { Name string; Index map[string]int }: Index has no schema.
Lookup ==
    StructOf("Lookup",
             <<Field("Name", "", Empty, Empty, Empty, Prim("string")),
               Field("Index", "", Empty, Empty, Empty, MapOf(Prim("int")))>>)

\* struct { Value string }                                   (client.go:209)
stringResponse ==
    StructOf("stringResponse",
             <<Field("Value", "", Empty, Empty, Empty, Prim("string"))>>)

\* struct { Values []string }                                (client.go:221)
stringSliceResponse ==
    StructOf("stringSliceResponse",
             <<Field("Values", "", Empty, Empty, Empty, SliceOf(Prim("string")))>>)

\* struct { Value bool }                                     (client.go:233)
boolResponse ==
    StructOf("boolResponse",
             <<Field("Value", "", Empty, Empty, Empty, Prim("bool"))>>)

\* struct { Values []bool }                                  (client.go:245)
boolSliceResponse ==
    StructOf("boolSliceResponse",
             <<Field("Values", "", Empty, Empty, Empty, SliceOf(Prim("bool")))>>)

\* struct { Values []int }                                   (client.go:269)
intSliceResponse ==
    StructOf("intSliceResponse",
             <<Field("Values", "", Empty, Empty, Empty, SliceOf(Prim("int")))>>)

\* struct { Value float32 }                                  (client.go:281)
floatResponse ==
    StructOf("floatResponse",
             <<Field("Value", "", Empty, Empty, Empty, Prim("float32"))>>)

\* struct { Values []float32 }                               (client.go:293)
floatSliceResponse ==
    StructOf("floatSliceResponse",
             <<Field("Values", "", Empty, Empty, Empty, SliceOf(Prim("float32")))>>)

\* The one-field records of the convenience methods.
ResponseTypes ==
    {stringResponse, stringSliceResponse, boolResponse, boolSliceResponse, intResponse,
     intSliceResponse, floatResponse, floatSliceResponse}

RecordTypes == {Reply, intResponse, Lookup} \cup ResponseTypes

\* The identity of a named type, the key of the schema cache.
Key(t) == t.Name

TypeKeys == {Key(t) : t \in RecordTypes}

TypeOfKey(k) == CHOOSE t \in RecordTypes : Key(t) = k

\* An argument of Do: its dynamic type and whether it is a nil pointer.
\* reflect.ValueOf(nil) is the zero Value, of kind Invalid.
RetOf(type, isNil) == [Type |-> type, IsNil |-> isNil]

\* The arguments Do is called with, by what the caller writes.
RetDef(r) ==
    CASE r = "nil" -> RetOf(Prim("invalid"), TRUE)
      [] r = "Reply{}" -> RetOf(Reply, FALSE)
      [] r = "&int" -> RetOf(PtrTo(Prim("int")), FALSE)
      [] r = "&[]string" -> RetOf(PtrTo(SliceOf(Prim("string"))), FALSE)
      [] r = "&&Reply" -> RetOf(PtrTo(PtrTo(Reply)), FALSE)
      [] r = "(*Reply)(nil)" -> RetOf(PtrTo(Reply), TRUE)
      [] r = "(*int)(nil)" -> RetOf(PtrTo(Prim("int")), TRUE)
      [] r = "&Reply{}" -> RetOf(PtrTo(Reply), FALSE)
      [] r = "&intResponse{}" -> RetOf(PtrTo(intResponse), FALSE)
      [] r = "&Lookup{}" -> RetOf(PtrTo(Lookup), FALSE)
      [] r = "&stringResponse{}" -> RetOf(PtrTo(stringResponse), FALSE)
      [] r = "&stringSliceResponse{}" -> RetOf(PtrTo(stringSliceResponse), FALSE)
      [] r = "&boolResponse{}" -> RetOf(PtrTo(boolResponse), FALSE)
      [] r = "&boolSliceResponse{}" -> RetOf(PtrTo(boolSliceResponse), FALSE)
      [] r = "&intSliceResponse{}" -> RetOf(PtrTo(intSliceResponse), FALSE)
      [] r = "&floatResponse{}" -> RetOf(PtrTo(floatResponse), FALSE)
      [] r = "&floatSliceResponse{}" -> RetOf(PtrTo(floatSliceResponse), FALSE)

RetValues ==
    {"nil", "Reply{}", "&int", "&[]string", "&&Reply", "(*Reply)(nil)",
     "(*int)(nil)", "&Reply{}", "&intResponse{}", "&Lookup{}"}

\* The zero value of a primitive field, as the text that prints it.
ZeroOf(kind) ==
    CASE kind = "string" -> ""
      [] kind \in IntKinds \cup {"float32", "float64"} -> "0"
      [] kind = "bool" -> "false"
      [] OTHER -> "nil"

\* A slice value: nil, or its elements.
NilSlice == [nil |-> TRUE, elems |-> <<>>]

SliceValue(elems) == [nil |-> FALSE, elems |-> elems]

\* The zero value of a variable of the type.
ZeroValue(type) == IF type.Kind = "slice" THEN NilSlice ELSE ZeroOf(type.Kind)

\* A value some earlier code of the caller left in a field.
OldOf(kind) ==
    CASE kind = "string" -> "old"
      [] kind \in IntKinds -> "1"
      [] OTHER -> "nil"

FieldNames(t) == {t.Fields[k].Name : k \in 1..Len(t.Fields)}

FieldOf(t, name) == CHOOSE f \in {t.Fields[k] : k \in 1..Len(t.Fields)} : f.Name = name

\* The values the caller's variable can hold when Do is called: one slot per
\* field of a record, one slot "*" for any other pointee, no slot when ret is
\* not a (non-nil) pointer.
Targets(arg) ==
    LET r == RetDef(arg)
    IN
    IF r.Type.Kind # "ptr" \/ r.IsNil
    THEN {<<>>}
    ELSE LET t == r.Type.Elem[1]
         IN IF t.Kind = "struct"
            THEN {[n \in FieldNames(t) |-> ZeroOf(FieldOf(t, n).Type.Kind)],
                  [n \in FieldNames(t) |-> OldOf(FieldOf(t, n).Type.Kind)]}
            ELSE {[n \in {"*"} |-> ZeroOf(t.Kind)], [n \in {"*"} |-> OldOf(t.Kind)]}

-----------------------------------------------------------------------------
(* encoding/json.Unmarshal into a pointer to a record *)

JStr(v) == [t |-> "string", v |-> v]

JNum(v) == [t |-> "number", v |-> v]

JBool(v) == [t |-> "bool", v |-> v]

\* A JSON array of primitive values.
JArr(elems) == [t |-> "array", v |-> elems]

\* A text the provider returns: a JSON object (key -> value) or no JSON at all.
JObject(obj) == [valid |-> TRUE, obj |-> obj]

Garbage == [valid |-> FALSE, obj |-> [k \in {} |-> JStr("")]]

TextFull == JObject([k \in {"message", "score"} |->
                        IF k = "message" THEN JStr("hi") ELSE JNum("7")])

TextPartial == JObject([k \in {"score"} |-> JNum("9")])

TextMismatch == JObject([k \in {"message", "score"} |->
                            IF k = "message" THEN JStr("yo") ELSE JStr("x")])

TextValue == JObject([k \in {"value"} |-> JNum("3")])

Texts == {TextFull, TextPartial, TextMismatch, TextValue, Garbage}

\* strings.ToLower on the names that occur here.
Fold(s) ==
    CASE s = "Message" -> "message"
      [] s = "Score" -> "score"
      [] s = "Value" -> "value"
      [] s = "Values" -> "values"
      [] s = "Name" -> "name"
      [] s = "Index" -> "index"
      [] OTHER -> s

\* The key encoding/json decodes a field from: the json tag's name part, or the
\* declared name when that part is empty.
JsonKey(field) ==
    LET comma == Index(field.json, ",", 1)
        name == IF comma # 0 THEN SubSeq(field.json, 1, comma - 1) ELSE field.json
    IN IF name # Empty THEN name[1] ELSE field.Name

\* encoding/json ignores unexported fields and fields tagged "-"; a key matches
\* a field exactly or case-insensitively.
Matches(field, key) ==
    /\ field.PkgPath = ""
    /\ field.json # Str("-")
    /\ (key = JsonKey(field) \/ Fold(key) = Fold(JsonKey(field)))

Assignable(kind, jv) ==
    CASE kind = "string" -> jv.t = "string"
      [] kind \in IntKinds \cup {"float32", "float64"} -> jv.t = "number"
      [] kind = "bool" -> jv.t = "bool"
      [] OTHER -> FALSE

\* The JSON value jv decoded into a field of the given type that holds old: the
\* field's new value and whether the value had the right type. A slice takes an
\* array element by element, and an element of the wrong type leaves the zero
\* value at its place; any other mismatch leaves the field as it was.
DecodeInto(type, jv, old) ==
    IF type.Kind = "slice"
    THEN IF jv.t = "array"
         THEN [ok |-> \A k \in 1..Len(jv.v) : Assignable(type.Elem[1].Kind, jv.v[k]),
               value |-> SliceValue([k \in 1..Len(jv.v) |->
                                        IF Assignable(type.Elem[1].Kind, jv.v[k])
                                        THEN jv.v[k].v
                                        ELSE ZeroOf(type.Elem[1].Kind)])]
         ELSE [ok |-> FALSE, value |-> old]
    ELSE IF Assignable(type.Kind, jv)
    THEN [ok |-> TRUE, value |-> jv.v]
    ELSE [ok |-> FALSE, value |-> old]

\* json.Unmarshal(text, ret) for ret a non-nil pointer to record type t holding
\* tgt. The text is checked for syntax before anything is written. A value of
\* the wrong JSON type is skipped and remembered as the error, and decoding goes
\* on: the well-typed fields of the same text are written all the same. A field
\* the text does not mention keeps its value.
Unmarshal(text, t, tgt) ==
    IF ~text.valid
    THEN [target |-> tgt, err |-> <<"invalid character">>]
    ELSE LET keys(n) == {k \in DOMAIN text.obj : Matches(FieldOf(t, n), k)}
             into(n, k) == DecodeInto(FieldOf(t, n).Type, text.obj[k], tgt[n])
             good(n) == {k \in keys(n) : into(n, k).ok}
             bad == {n \in DOMAIN tgt : keys(n) \ good(n) # {}}
         IN [target |-> [n \in DOMAIN tgt |->
                            IF good(n) # {}
                            THEN into(n, CHOOSE k \in good(n) : TRUE).value
                            ELSE IF keys(n) # {}
                            THEN into(n, CHOOSE k \in keys(n) : TRUE).value
                            ELSE tgt[n]],
             err |-> IF bad # {} THEN <<"cannot unmarshal">> ELSE <<>>]

-----------------------------------------------------------------------------
(* The llm interface as Do sees it *)

\* What one call of c.llm.Completions returns: an error and no text, or the
\* text of the first choice.
CompletionsErrors == {"send request", "unexpected status code"}

CompletionsResults ==
    {[err |-> <<e>>, text |-> <<>>] : e \in CompletionsErrors}
    \cup {[err |-> <<>>, text |-> <<x>>] : x \in Texts}

-----------------------------------------------------------------------------
(* client.Do *)

RetryValues == (-1..MaxRetry) \cup {MaxInt}

\* Go's int addition: it wraps at the ends of the range.
AddInt(a, b) ==
    LET sum == IF a > 0 /\ b > 0 /\ a > MaxInt - b THEN (a - MaxInt - 1) + b + MinInt
               ELSE a + b
    IN sum

\* retries := c.retry; if retries <= 0 { retries = 1 }
Retries(c) == IF retry[c] <= 0 THEN 1 ELSE retry[c]

\* The loop condition i < retries+1.
InLoop(p) == i[p] < AddInt(Retries(cli[p]), 1)

\* The record type behind ret once ret is known to be a non-nil pointer.
ElemType(p) == RetDef(ret[p]).Type.Elem[1]

Idle ==
    [pc |-> "idle", cli |-> "none", ret |-> "nil", target |-> <<>>,
     sche |-> <<>>, i |-> 0, lastErr |-> <<>>, calls |-> 0, decodes |-> 0,
     okAt |-> 0, lastOut |-> <<>>, seen |-> {}, passed |-> <<>>, result |-> <<>>]

\* No typeToSchema computation is under way.
SchemaIdle ==
    /\ rtype = <<>>
    /\ schemaOut = <<>>
    /\ wire = <<>>

\* No Completions call of the openai type is under way.
LLMIdle ==
    /\ config = <<>>
    /\ messages = <<>>
    /\ responseSchema = <<>>
    /\ lpc = "idle"
    /\ reqBody = <<>>
    /\ posts = <<>>
    /\ resp = <<>>
    /\ completion = <<>>
    /\ ranged = <<>>
    /\ sink = <<>>
    /\ prev = <<>>

\* The caller is in no convenience method.
APIIdle ==
    /\ method = "none"
    /\ methodOut = <<>>
    /\ given = <<>>
    /\ made = <<>>

\* A client fresh from New: nothing cached, no Do under way.
DoIdle ==
    /\ schemaCache = [c \in Clients |-> <<>>]
    /\ reflected = [c \in Clients |-> [k \in TypeKeys |-> 0]]
    /\ derived = [c \in Clients |-> <<>>]
    /\ hits = [c \in Clients |-> [k \in TypeKeys |-> 0]]
    /\ doCount = 0
    /\ pc = [p \in Procs |-> Idle.pc]
    /\ cli = [p \in Procs |-> Idle.cli]
    /\ ret = [p \in Procs |-> Idle.ret]
    /\ target = [p \in Procs |-> Idle.target]
    /\ target0 = [p \in Procs |-> Idle.target]
    /\ sche = [p \in Procs |-> Idle.sche]
    /\ i = [p \in Procs |-> Idle.i]
    /\ lastErr = [p \in Procs |-> Idle.lastErr]
    /\ calls = [p \in Procs |-> Idle.calls]
    /\ decodes = [p \in Procs |-> Idle.decodes]
    /\ okAt = [p \in Procs |-> Idle.okAt]
    /\ lastOut = [p \in Procs |-> Idle.lastOut]
    /\ seen = [p \in Procs |-> Idle.seen]
    /\ passed = [p \in Procs |-> Idle.passed]
    /\ result = [p \in Procs |-> Idle.result]

Init ==
    /\ retry \in [{First} -> RetryValues]
    /\ DoIdle
    /\ APIIdle
    /\ SchemaIdle
    /\ LLMIdle

\* Do's checks of ret before anything else: what they return, or that Do goes on.
\* v.Elem() of a nil pointer is the zero Value, and Type() of it panics.
Validate(r) ==
    IF r.Type.Kind # "ptr"
    THEN [pc |-> "done", result |-> <<Err("ret must be a pointer", "", <<>>, 0)>>]
    ELSE IF r.IsNil
    THEN [pc |-> "panicked", result |-> <<>>]
    ELSE IF r.Type.Elem[1].Kind # "struct"
    THEN [pc |-> "done",
          result |-> <<Err("ret must be a pointer to struct", r.Type.Elem[1].Kind, <<>>, 0)>>]
    ELSE [pc |-> "load", result |-> <<>>]

\* Do is called on client c with ret r, whose pointee holds tgt.
DoCall(p, c, r, tgt) ==
    /\ pc[p] = "idle"
    /\ doCount < MaxDo
    /\ doCount' = doCount + 1
    /\ cli' = [cli EXCEPT ![p] = c]
    /\ ret' = [ret EXCEPT ![p] = r]
    /\ target' = [target EXCEPT ![p] = tgt]
    /\ target0' = [target0 EXCEPT ![p] = tgt]
    /\ pc' = [pc EXCEPT ![p] = Validate(RetDef(r)).pc]
    /\ result' = [result EXCEPT ![p] = Validate(RetDef(r)).result]
    /\ UNCHANGED <<retry, schemaCache, reflected, derived, hits, sche, i, lastErr,
                   calls, decodes, okAt, lastOut, seen, passed>>

\* Load that never finds an entry (a key that never compares equal).
LoadMisses(cache, t) == [ok |-> FALSE, value |-> <<>>]

\* cache.Load(t): the stored value and ok, or no value.
Load(cache, t) ==
    IF Key(t) \in DOMAIN cache
    THEN [ok |-> TRUE, value |-> <<cache[Key(t)]>>]
    ELSE [ok |-> FALSE, value |-> <<>>]

\* DoLoad under a lock that a goroutine holds from its Load to its Store: a
\* Load waits while another goroutine derives a schema.
DoLoadLocked(p) ==
    /\ pc[p] = "load"
    /\ \A q \in Procs \ {p} : pc[q] # "reflect"
    /\ IF Key(ElemType(p)) \in DOMAIN schemaCache[cli[p]]
       THEN /\ sche' = [sche EXCEPT ![p] = <<schemaCache[cli[p]][Key(ElemType(p))]>>]
            /\ hits' = [hits EXCEPT ![cli[p]][Key(ElemType(p))] = @ + 1]
            /\ pc' = [pc EXCEPT ![p] = "loop"]
       ELSE /\ pc' = [pc EXCEPT ![p] = "reflect"]
            /\ UNCHANGED <<sche, hits>>
    /\ UNCHANGED <<retry, schemaCache, reflected, derived, doCount, cli, ret,
                   target, target0, i, lastErr, calls, decodes, okAt, lastOut,
                   seen, passed, result>>

\* if cached, ok := c.schemaCache.Load(t); ok { sche = cached.(*schema) }
DoLoad(p) ==
    /\ pc[p] = "load"
    /\ IF Load(schemaCache[cli[p]], ElemType(p)).ok
       THEN /\ sche' = [sche EXCEPT ![p] = Load(schemaCache[cli[p]], ElemType(p)).value]
            /\ hits' = [hits EXCEPT ![cli[p]][Key(ElemType(p))] = @ + 1]
            /\ pc' = [pc EXCEPT ![p] = "loop"]
       ELSE /\ pc' = [pc EXCEPT ![p] = "reflect"]
            /\ UNCHANGED <<sche, hits>>
    /\ UNCHANGED <<retry, schemaCache, reflected, derived, doCount, cli, ret,
                   target, target0, i, lastErr, calls, decodes, okAt, lastOut,
                   seen, passed, result>>

\* Store that loses the entry: the cache stays as it was.
StoreLost(cache, t, s) == cache

\* The cache after c.schemaCache.Store(t, schema).
Store(cache, t, s) == MapPut(cache, Key(t), s)

\* Miss with typeToSchema's error dropped: an empty object schema is used and
\* stored when the derivation fails.
MissIgnoresError(cache, t) ==
    LET r == typeToSchema(t)
        s == IF r.err # <<>> THEN <<NewSchema(schemaTypeObject)>> ELSE r.schema
    IN [err |-> <<>>, sche |-> s, cache |-> Store(cache, t, s[1])]

\* The miss branch: typeToSchema(t); an error is returned as it is, a schema
\* becomes sche and is stored.
Miss(cache, t) ==
    LET r == typeToSchema(t)
    IN IF r.err # <<>>
       THEN [err |-> r.err, sche |-> <<>>, cache |-> cache]
       ELSE [err |-> <<>>, sche |-> r.schema, cache |-> Store(cache, t, r.schema[1])]

DoReflect(p) ==
    LET c == cli[p]
        t == ElemType(p)
        m == Miss(schemaCache[c], t)
    IN /\ pc[p] = "reflect"
       /\ reflected' = [reflected EXCEPT ![c][Key(t)] = @ + 1]
       /\ schemaCache' = [schemaCache EXCEPT ![c] = m.cache]
       /\ sche' = [sche EXCEPT ![p] = m.sche]
       /\ IF m.err # <<>>
          THEN /\ result' = [result EXCEPT ![p] = m.err]
               /\ pc' = [pc EXCEPT ![p] = "done"]
               /\ UNCHANGED derived
          ELSE /\ derived' = [derived EXCEPT ![c] =
                                 IF Key(t) \in DOMAIN @ THEN @ ELSE MapPut(@, Key(t), m.sche[1])]
               /\ pc' = [pc EXCEPT ![p] = "loop"]
               /\ UNCHANGED result
       /\ UNCHANGED <<retry, hits, doCount, cli, ret, target, target0, i, lastErr,
                      calls, decodes, okAt, lastOut, seen, passed>>

\* Attempt with the `return nil` lost: a success goes round the loop again.
AttemptGoesOn(p, out) ==
    IF out.err # <<>>
    THEN [target |-> target[p], returns |-> FALSE,
          lastErr |-> <<Err(out.err[1], "", <<>>, calls[p] + 1)>>]
    ELSE LET u == Unmarshal(out.text[1], ElemType(p), target[p])
         IN IF u.err # <<>>
            THEN [target |-> u.target, returns |-> FALSE,
                  lastErr |-> <<Err("unmarshal response", u.err[1], out.text, calls[p] + 1)>>]
            ELSE [target |-> u.target, returns |-> FALSE, lastErr |-> lastErr[p]]

\* Attempt with `if lastErr == nil` around the assignments: the first error stays.
AttemptKeepsFirstError(p, out) ==
    LET a == AttemptGoesOn(p, out)
        ok == out.err = <<>> /\ Unmarshal(out.text[1], ElemType(p), target[p]).err = <<>>
    IN [target |-> a.target, returns |-> ok,
        lastErr |-> IF lastErr[p] = <<>> THEN a.lastErr ELSE lastErr[p]]

\* Attempt with the decode error returned bare, the raw text not wrapped in.
AttemptBareDecodeError(p, out) ==
    LET a == AttemptGoesOn(p, out)
        ok == out.err = <<>> /\ Unmarshal(out.text[1], ElemType(p), target[p]).err = <<>>
    IN [target |-> a.target, returns |-> ok,
        lastErr |-> IF a.lastErr # <<>> /\ a.lastErr[1].raw # <<>>
                    THEN <<[a.lastErr[1] EXCEPT !.raw = <<>>]>>
                    ELSE a.lastErr]

\* Attempt decoding into a zeroed record: a Completions error clears the target.
AttemptClearsTarget(p, out) ==
    LET a == AttemptGoesOn(p, out)
        ok == out.err = <<>> /\ Unmarshal(out.text[1], ElemType(p), target[p]).err = <<>>
    IN [target |-> IF out.err # <<>>
                   THEN [n \in DOMAIN target[p] |-> ZeroOf(FieldOf(ElemType(p), n).Type.Kind)]
                   ELSE a.target,
        returns |-> ok, lastErr |-> a.lastErr]

\* What one iteration of the loop does with the result out of Completions:
\* the new target, lastErr, and whether Do returns nil now.
Attempt(p, out) ==
    IF out.err # <<>>
    THEN [target |-> target[p], returns |-> FALSE,
          lastErr |-> <<Err(out.err[1], "", <<>>, calls[p] + 1)>>]
    ELSE LET u == Unmarshal(out.text[1], ElemType(p), target[p])
         IN IF u.err # <<>>
            THEN [target |-> u.target, returns |-> FALSE,
                  lastErr |-> <<Err("unmarshal response", u.err[1], out.text, calls[p] + 1)>>]
            ELSE [target |-> u.target, returns |-> TRUE, lastErr |-> lastErr[p]]

\* The result out is text, and the text decodes into p's target.
Decodes(p, out) ==
    /\ out.err = <<>>
    /\ Unmarshal(out.text[1], ElemType(p), target[p]).err = <<>>

\* One iteration of `for i := 0; i < retries+1; i++`.
DoAttempt(p, out) ==
    LET a == Attempt(p, out)
    IN /\ pc[p] = "loop"
       /\ InLoop(p)
       /\ calls' = [calls EXCEPT ![p] = @ + 1]
       /\ passed' = [passed EXCEPT ![p] = sche[p]]
       /\ lastOut' = [lastOut EXCEPT ![p] = <<out>>]
       /\ seen' = [seen EXCEPT ![p] = @ \cup {out}]
       /\ okAt' = [okAt EXCEPT ![p] = IF @ = 0 /\ Decodes(p, out) THEN calls[p] + 1 ELSE @]
       /\ decodes' = [decodes EXCEPT ![p] = IF out.err = <<>> THEN @ + 1 ELSE @]
       /\ target' = [target EXCEPT ![p] = a.target]
       /\ lastErr' = [lastErr EXCEPT ![p] = a.lastErr]
       /\ IF a.returns
          THEN /\ pc' = [pc EXCEPT ![p] = "done"]
               /\ result' = [result EXCEPT ![p] = <<>>]
               /\ UNCHANGED i
          ELSE /\ i' = [i EXCEPT ![p] = @ + 1]
               /\ UNCHANGED <<pc, result>>
       /\ UNCHANGED <<retry, schemaCache, reflected, derived, hits, doCount, cli, ret,
                      target0, sche>>

\* The loop ends without a success: return lastErr.
DoExit(p) ==
    /\ pc[p] = "loop"
    /\ ~InLoop(p)
    /\ pc' = [pc EXCEPT ![p] = "done"]
    /\ result' = [result EXCEPT ![p] = lastErr[p]]
    /\ UNCHANGED <<retry, schemaCache, reflected, derived, hits, doCount, cli, ret,
                   target, target0, sche, i, lastErr, calls, decodes, okAt,
                   lastOut, seen, passed>>

\* The caller takes the result (or recovers from the panic); the goroutine is
\* free for its next call.
DoReturn(p) ==
    /\ pc[p] \in {"done", "panicked"}
    /\ pc' = [pc EXCEPT ![p] = Idle.pc]
    /\ cli' = [cli EXCEPT ![p] = Idle.cli]
    /\ ret' = [ret EXCEPT ![p] = Idle.ret]
    /\ target' = [target EXCEPT ![p] = Idle.target]
    /\ target0' = [target0 EXCEPT ![p] = Idle.target]
    /\ sche' = [sche EXCEPT ![p] = Idle.sche]
    /\ i' = [i EXCEPT ![p] = Idle.i]
    /\ lastErr' = [lastErr EXCEPT ![p] = Idle.lastErr]
    /\ calls' = [calls EXCEPT ![p] = Idle.calls]
    /\ decodes' = [decodes EXCEPT ![p] = Idle.decodes]
    /\ okAt' = [okAt EXCEPT ![p] = Idle.okAt]
    /\ lastOut' = [lastOut EXCEPT ![p] = Idle.lastOut]
    /\ seen' = [seen EXCEPT ![p] = Idle.seen]
    /\ passed' = [passed EXCEPT ![p] = Idle.passed]
    /\ result' = [result EXCEPT ![p] = Idle.result]
    /\ UNCHANGED <<retry, schemaCache, reflected, derived, hits, doCount>>

\* Sequential use: one goroutine calls Do, one call after the other, on the
\* clients that exist.
SeqCall ==
    /\ \E c \in DOMAIN retry, r \in RetValues :
           \E tgt \in Targets(r) : DoCall(Main, c, r, tgt)
    /\ UNCHANGED <<schemaVars, llmVars, apiVars>>

LoadStep == (\E p \in Procs : DoLoad(p)) /\ UNCHANGED <<schemaVars, llmVars, apiVars>>

ReflectStep == (\E p \in Procs : DoReflect(p)) /\ UNCHANGED <<schemaVars, llmVars, apiVars>>

AttemptStep ==
    /\ \E p \in Procs : \E out \in CompletionsResults : DoAttempt(p, out)
    /\ UNCHANGED <<schemaVars, llmVars, apiVars>>

ExitStep == (\E p \in Procs : DoExit(p)) /\ UNCHANGED <<schemaVars, llmVars, apiVars>>

ReturnStep == (\E p \in Procs : DoReturn(p)) /\ UNCHANGED <<schemaVars, llmVars, apiVars>>

Next == SeqCall \/ LoadStep \/ ReflectStep \/ AttemptStep \/ ExitStep \/ ReturnStep

Spec == Init /\ [][Next]_vars

-----------------------------------------------------------------------------
(* Concurrent use: two goroutines call Do on one client *)

\* The targets the goroutines pass: pointers to records.
ConcRets == {"&Reply{}", "&intResponse{}", "&Lookup{}"}

\* What Completions returns to them: an error, or a text.
ConcResults ==
    {[err |-> <<"send request">>, text |-> <<>>], [err |-> <<>>, text |-> <<TextFull>>]}

InitConc ==
    /\ retry = [c \in {First} |-> 1]
    /\ DoIdle
    /\ APIIdle
    /\ SchemaIdle
    /\ LLMIdle

\* Any goroutine that is not inside Do calls it, whatever the others are doing.
ConcCall ==
    /\ \E p \in Procs, r \in ConcRets :
           \E tgt \in Targets(r) : DoCall(p, First, r, tgt)
    /\ UNCHANGED <<schemaVars, llmVars, apiVars>>

ConcAttemptStep ==
    /\ \E p \in Procs : \E out \in ConcResults : DoAttempt(p, out)
    /\ UNCHANGED <<schemaVars, llmVars, apiVars>>

NextConc ==
    ConcCall \/ LoadStep \/ ReflectStep \/ ConcAttemptStep \/ ExitStep \/ ReturnStep

SpecConc == InitConc /\ [][NextConc]_vars

-----------------------------------------------------------------------------
(* Do under a context that is cancelled from the start *)

\* What Completions returns then: o.hc.Do fails, and the error is wrapped as
\* "send request" (llm.go:121-124).
CancelledResults == {[err |-> <<"send request">>, text |-> <<>>]}

CancelledAttemptStep ==
    /\ \E p \in Procs : \E out \in CancelledResults : DoAttempt(p, out)
    /\ UNCHANGED <<schemaVars, llmVars, apiVars>>

NextCancelled ==
    SeqCall \/ LoadStep \/ ReflectStep \/ CancelledAttemptStep \/ ExitStep \/ ReturnStep

\* A Do call that has started goes on to its return: the goroutine is scheduled
\* and every Completions call returns.
SpecCancelled ==
    /\ Init
    /\ [][NextCancelled]_vars
    /\ WF_vars(LoadStep)
    /\ WF_vars(ReflectStep)
    /\ WF_vars(CancelledAttemptStep)
    /\ WF_vars(ExitStep)

-----------------------------------------------------------------------------
(* New *)

\* The float32 values a Config has as its Temperature, by their decimal text.
ConfigTemperatures == {"-0.1", "0", "0.7", "2", "2.5", "NaN"}

\* Ten times the number a temperature stands for (NaN is no number).
Tenths(t) ==
    CASE t = "-0.1" -> -1
      [] t = "0" -> 0
      [] t = "0.7" -> 7
      [] t = "2" -> 20
      [] t = "2.5" -> 25

\* a < b on float32: false whenever an operand is NaN.
FloatLess(a, b) == a # "NaN" /\ b # "NaN" /\ Tenths(a) < Tenths(b)

DefaultBaseURL == <<"https://api.deepseek.com/v1">>

DefaultModel == "deepseek-chat"

\* The Config values a caller passes to New; an unset string is empty.
UserConfigs ==
    {[Debug |-> d, BaseURL |-> u, APIKey |-> k, Model |-> m, Temperature |-> t,
      StructuredOutputSupported |-> f, Retry |-> r] :
        d \in BOOLEAN, u \in {Empty, <<"https://test.com">>}, k \in {"", "test-key"},
        m \in {"", "test-model"}, t \in ConfigTemperatures, f \in BOOLEAN,
        r \in {-1, 0, MaxRetry, MaxInt}}

\* New(config): an error and no client, or the client with its openai.
New(cfg) ==
    IF cfg.APIKey = ""
    THEN [client |-> <<>>, err |-> <<"api key is required">>]
    ELSE IF FloatLess(cfg.Temperature, "0") \/ FloatLess("2", cfg.Temperature)
    THEN [client |-> <<>>, err |-> <<"temperature must be between 0 and 2">>]
    ELSE [client |->
              <<[llm |-> [Debug |-> cfg.Debug,
                          BaseURL |-> IF cfg.BaseURL = Empty THEN DefaultBaseURL
                                      ELSE cfg.BaseURL,
                          APIKey |-> cfg.APIKey,
                          Model |-> IF cfg.Model = "" THEN DefaultModel ELSE cfg.Model,
                          Temperature |-> cfg.Temperature,
                          StructuredOutputSupported |-> cfg.StructuredOutputSupported],
                 retry |-> cfg.Retry]>>,
          err |-> <<>>]

\* The name the next client constructed goes by.
NextClient == IF First \in DOMAIN retry THEN CHOOSE c \in Clients : c # First ELSE First

\* The caller calls New(cfg); a client that New returns exists from now on,
\* with its retry count and an empty schemaCache.
NewCall(cfg) ==
    /\ DOMAIN retry # Clients
    /\ \A p \in Procs : pc[p] = "idle"
    /\ given' = <<cfg>>
    /\ made' = <<New(cfg)>>
    /\ retry' = IF New(cfg).err = <<>>
                THEN MapPut(retry, NextClient, New(cfg).client[1].retry)
                ELSE retry
    /\ UNCHANGED <<schemaCache, reflected, derived, hits, doCount, pc, cli, ret, target,
                   target0, sche, i, lastErr, calls, decodes, okAt, lastOut, seen, passed,
                   result>>
    /\ UNCHANGED <<method, methodOut, schemaVars, llmVars>>

\* A program before its first New: no client exists.
InitNew ==
    /\ retry = <<>>
    /\ DoIdle
    /\ APIIdle
    /\ SchemaIdle
    /\ LLMIdle

NextNew == \E cfg \in UserConfigs : NewCall(cfg)

SpecNew == InitNew /\ [][NextNew]_vars

-----------------------------------------------------------------------------
(* A sequential program that constructs its clients with New and calls Do *)

\* The configurations it constructs them with: two that New accepts and one
\* without a key.
ProgramConfigs ==
    {cfg \in UserConfigs :
        /\ cfg.Debug = FALSE
        /\ cfg.BaseURL = Empty
        /\ cfg.Model = ""
        /\ cfg.Temperature = "0"
        /\ cfg.StructuredOutputSupported = FALSE
        /\ \/ cfg.APIKey = "test-key" /\ cfg.Retry \in {0, MaxRetry}
           \/ cfg.APIKey = "" /\ cfg.Retry = 0}

NewStep == \E cfg \in ProgramConfigs : NewCall(cfg)

\* Do on any client constructed so far, with a pointer to a record.
ProgramCall ==
    /\ \E c \in DOMAIN retry, r \in ConcRets :
           \E tgt \in Targets(r) : DoCall(Main, c, r, tgt)
    /\ UNCHANGED <<schemaVars, llmVars, apiVars>>

NextProgram ==
    NewStep \/ ProgramCall \/ LoadStep \/ ReflectStep \/ ConcAttemptStep \/ ExitStep
        \/ ReturnStep

SpecProgram == InitNew /\ [][NextProgram]_vars

-----------------------------------------------------------------------------
(* The convenience methods: String, StringSlice, Bool, ... *)

Methods ==
    {"String", "StringSlice", "Bool", "BoolSlice", "Int", "IntSlice", "Float", "FloatSlice"}

\* The record a method declares as `var resp ...Response`.
ResponseOf(m) ==
    CASE m = "String" -> stringResponse
      [] m = "StringSlice" -> stringSliceResponse
      [] m = "Bool" -> boolResponse
      [] m = "BoolSlice" -> boolSliceResponse
      [] m = "Int" -> intResponse
      [] m = "IntSlice" -> intSliceResponse
      [] m = "Float" -> floatResponse
      [] m = "FloatSlice" -> floatSliceResponse

\* The argument &resp of the method's Do call.
RetFor(m) ==
    CASE m = "String" -> "&stringResponse{}"
      [] m = "StringSlice" -> "&stringSliceResponse{}"
      [] m = "Bool" -> "&boolResponse{}"
      [] m = "BoolSlice" -> "&boolSliceResponse{}"
      [] m = "Int" -> "&intResponse{}"
      [] m = "IntSlice" -> "&intSliceResponse{}"
      [] m = "Float" -> "&floatResponse{}"
      [] m = "FloatSlice" -> "&floatSliceResponse{}"

\* resp as declared: every field has its zero value.
ZeroRecord(t) == [n \in FieldNames(t) |-> ZeroValue(FieldOf(t, n).Type)]

\* The value a method returns next to an error: "", false, 0 or nil.
MethodZero(m) ==
    CASE m = "String" -> ""
      [] m = "Bool" -> "false"
      [] m \in {"Int", "Float"} -> "0"
      [] m \in {"StringSlice", "BoolSlice", "IntSlice", "FloatSlice"} -> NilSlice

\* MethodResult returning resp's field in both cases.
MethodResultKeepsValue(m, res, tgt) ==
    [value |-> tgt[ResponseOf(m).Fields[1].Name], err |-> res]

\* if err := c.Do(ctx, messages, &resp); err != nil { return zero, err }
\* return resp.Value, nil
MethodResult(m, res, tgt) ==
    IF res # <<>>
    THEN [value |-> MethodZero(m), err |-> res]
    ELSE [value |-> tgt[ResponseOf(m).Fields[1].Name], err |-> <<>>]

\* JSON values of the element type of a method's result, and one of another type.
GoodValue(m) ==
    CASE m \in {"String", "StringSlice"} -> JStr("hi")
      [] m \in {"Bool", "BoolSlice"} -> JBool("true")
      [] m \in {"Int", "IntSlice"} -> JNum("3")
      [] m \in {"Float", "FloatSlice"} -> JNum("0.5")

BadValue(m) == IF m \in {"String", "StringSlice"} THEN JNum("3") ELSE JStr("x")

\* The texts a provider answers a method's request with: the field with a value
\* of its type, with a value of another type (for a sequence: an array whose
\* second element has another type), an object without the field, and no JSON.
MethodTexts(m) ==
    IF m \in {"String", "Bool", "Int", "Float"}
    THEN {JObject([k \in {"Value"} |-> GoodValue(m)]),
          JObject([k \in {"Value"} |-> BadValue(m)]),
          TextPartial, Garbage}
    ELSE {JObject([k \in {"Values"} |-> JArr(<<GoodValue(m), GoodValue(m)>>)]),
          JObject([k \in {"Values"} |-> JArr(<<GoodValue(m), BadValue(m)>>)]),
          TextPartial, Garbage}

MethodResults(m) ==
    {[err |-> <<"send request">>, text |-> <<>>]}
    \cup {[err |-> <<>>, text |-> <<x>>] : x \in MethodTexts(m)}

\* The caller calls c.String(ctx, messages) or one of the other methods: resp is
\* declared and Do called with &resp.
MethodCall ==
    /\ method = "none"
    /\ \E m \in Methods :
           /\ method' = m
           /\ DoCall(Main, First, RetFor(m), ZeroRecord(ResponseOf(m)))
    /\ methodOut' = <<>>
    /\ UNCHANGED <<given, made, schemaVars, llmVars>>

MethodAttemptStep ==
    /\ method # "none"
    /\ \E out \in MethodResults(method) : DoAttempt(Main, out)
    /\ UNCHANGED <<schemaVars, llmVars, apiVars>>

\* Do has returned: the method returns in its turn.
MethodReturn ==
    /\ method # "none"
    /\ methodOut = <<>>
    /\ pc[Main] = "done"
    /\ methodOut' = <<MethodResult(method, result[Main], target[Main])>>
    /\ UNCHANGED <<method, given, made, doVars, schemaVars, llmVars>>

\* The caller has the method's result and goes on; resp is gone.
MethodOver ==
    /\ methodOut # <<>>
    /\ DoReturn(Main)
    /\ method' = "none"
    /\ methodOut' = <<>>
    /\ UNCHANGED <<given, made, schemaVars, llmVars>>

NextMethods ==
    MethodCall \/ LoadStep \/ ReflectStep \/ MethodAttemptStep \/ ExitStep
        \/ MethodReturn \/ MethodOver

SpecMethods == Init /\ [][NextMethods]_vars

-----------------------------------------------------------------------------
(* The record types of a program, for typeToSchema on its own *)

\* Depth of the pointer and sequence wrappers around a field's base type.
MaxDepth == 2

ArrayOf(t) == [Kind |-> "array", Name |-> "[2]", Elem |-> <<t>>, Fields |-> <<>>]

\* The kinds typeToSchema's switch has a primitive case for.
FloatKinds == {"float32", "float64"}

LeafKinds == {"string", "bool"} \cup FloatKinds \cup IntKinds

\* Kinds of Go that the switch leaves to its default case.
DefaultKinds == {"uintptr", "chan", "func", "interface", "complex128"}

\* struct { Name string `json:"name" enum:"a,b"`; Age *int `desc:"d"` }
Inner ==
    StructOf("Inner",
             <<Field("Name", "", Str("name"), Empty, <<"a", ",", "b">>, Prim("string")),
               Field("Age", "", Empty, Str("d"), Empty, PtrTo(Prim("int")))>>)

\* struct { hidden map[string]int; Skip chan int `json:"-"`; Ok bool }
Guarded ==
    StructOf("Guarded",
             <<Field("hidden", "main", Empty, Empty, Empty, MapOf(Prim("int"))),
               Field("Skip", "", Str("-"), Empty, Empty, Prim("chan")),
               Field("Ok", "", Empty, Empty, Empty, Prim("bool"))>>)

\* struct {}
Unit == StructOf("Unit", <<>>)

\* struct { secret string }: no field is visible.
Opaque ==
    StructOf("Opaque", <<Field("secret", "main", Empty, Empty, Empty, Prim("string"))>>)

\* struct { Tags []string; Index map[string]int }
Indexed ==
    StructOf("Indexed",
             <<Field("Tags", "", Empty, Empty, Empty, SliceOf(Prim("string"))),
               Field("Index", "", Empty, Empty, Empty, MapOf(Prim("int")))>>)

InnerTypes == {Inner, Guarded, Unit, Opaque, Indexed}

BaseTypes ==
    {Prim(k) : k \in LeafKinds \cup DefaultKinds} \cup {MapOf(Prim("int"))} \cup InnerTypes

RECURSIVE Wrap(_, _)
\* The types at most d pointer, slice or array wrappers away from a type of S.
Wrap(S, d) ==
    IF d = 0 THEN S
    ELSE Wrap(S \cup {PtrTo(t) : t \in S} \cup {SliceOf(t) : t \in S}
                \cup {ArrayOf(t) : t \in S}, d - 1)

\* Records with one field of any of these types, with and without a json tag.
TypedRecords ==
    {StructOf("T", <<Field("A", "", tag, Empty, Empty, ty)>>) :
        tag \in {Empty, <<"x", ",", "omitempty">>}, ty \in Wrap(BaseTypes, MaxDepth)}

\* The json tags of the fields: none, a name, a name with a modifier, the
\* exclusion marker, the name "-" (`-,`), another field's declared name, and a
\* modifier without a name.
JsonTags ==
    {Empty, Str("x"), <<"x", ",", "omitempty">>, Str("-"), <<"-", ",">>, Str("B"),
     <<",", "omitempty">>}

\* The enum tags: none, one value, two values, and lists with empty values.
EnumTags == {Empty, Str("a"), <<"a", ",", "b">>, <<"b", ",", ",", "a">>, Str(",")}

DescTags == {Empty, Str("d")}

FirstTypes ==
    {Prim("string"), PtrTo(Prim("string")), Prim("int"), SliceOf(Prim("string")),
     MapOf(Prim("int")), Inner}

\* The first field of a two-field record; an unexported field has a lower-case
\* name and a package path.
FirstFields ==
    {Field(IF pkg = "" THEN "A" ELSE "a", pkg, tag, desc, enum, ty) :
        pkg \in {"", "main"}, tag \in JsonTags, desc \in DescTags, enum \in EnumTags,
        ty \in FirstTypes}

\* The second field: plain, with the first one's wire name or declared name,
\* unexported or excluded with a type that has no schema, an enum of its own,
\* and a visible field with a type that has no schema.
SecondFields ==
    {Field("B", "", Empty, Empty, Empty, Prim("bool")),
     Field("B", "", Str("x"), Empty, Empty, Prim("int")),
     Field("B", "", Str("A"), Empty, Empty, Prim("float64")),
     Field("b", "main", Empty, Empty, Empty, Prim("chan")),
     Field("B", "", Str("-"), Empty, Empty, MapOf(Prim("int"))),
     Field("B", "", Empty, Empty, <<"b", ",", "a">>, Prim("string")),
     Field("B", "", Empty, Empty, Empty, Prim("func"))}

TaggedRecords == {StructOf("T", <<f, g>>) : f \in FirstFields, g \in SecondFields}

\* The record types typeToSchema is given.
InputTypes == TypedRecords \cup TaggedRecords

-----------------------------------------------------------------------------
(* convertToOpenAISchema *)

\* The orders a `for k, v := range m` can visit the keys K in: Go fixes none.
RangeOrders(K) ==
    {q \in [1..Cardinality(K) -> K] : \A m, n \in 1..Cardinality(K) : q[m] = q[n] => m = n}

RECURSIVE KeySets(_)
\* The key sets of the non-empty ObjectProperties maps in a schema.
KeySets(s) ==
    (IF DOMAIN s.ObjectProperties # {} THEN {DOMAIN s.ObjectProperties} ELSE {})
    \cup (IF s.ArrayItems # <<>> THEN KeySets(s.ArrayItems[1]) ELSE {})
    \cup UNION {KeySets(s.ObjectProperties[k]) : k \in DOMAIN s.ObjectProperties}

\* One run of convertToOpenAISchema on s visits each map in some order.
Ranges(s) ==
    {f \in [KeySets(s) -> UNION {RangeOrders(K) : K \in KeySets(s)}] :
        \A K \in KeySets(s) : f[K] \in RangeOrders(K)}

RECURSIVE convertToOpenAISchema(_, _)
\* The map convertToOpenAISchema builds for s when its range loops visit the
\* keys as order says: a key is in the result only when its `if` adds it.
convertToOpenAISchema(s, order) ==
    LET typed == MapPut(<<>>, "type", s.Type)
        described == IF s.Description # Empty
                     THEN MapPut(typed, "description", s.Description) ELSE typed
        enumerated == IF Len(s.Enum) > 0
                      THEN MapPut(described, "enum", s.Enum) ELSE described
        itemized == IF s.ArrayItems # <<>>
                    THEN MapPut(enumerated, "items",
                                convertToOpenAISchema(s.ArrayItems[1], order))
                    ELSE enumerated
        keys == DOMAIN s.ObjectProperties
    IN IF Cardinality(keys) > 0
       THEN LET properties == [k \in keys |->
                                  convertToOpenAISchema(s.ObjectProperties[k], order)]
                names == order[keys]
            IN MapPut(MapPut(MapPut(itemized, "properties", properties),
                             "required", names),
                      "additionalProperties", FALSE)
       ELSE itemized

-----------------------------------------------------------------------------
(* One schema computation: typeToSchema, then convertToOpenAISchema *)

InitSchema ==
    /\ retry = [c \in {First} |-> 0]
    /\ DoIdle
    /\ APIIdle
    /\ LLMIdle
    /\ rtype \in {<<t>> : t \in InputTypes}
    /\ schemaOut = <<>>
    /\ wire = <<>>

\* schema, err := typeToSchema(t)                             (client.go:177)
Derive ==
    /\ rtype # <<>>
    /\ schemaOut = <<>>
    /\ schemaOut' = <<typeToSchema(rtype[1])>>
    /\ UNCHANGED <<rtype, wire, doVars, llmVars, apiVars>>

\* convertToOpenAISchema(responseSchema) on the schema derived (llm.go:84, 94)
Convert ==
    /\ schemaOut # <<>>
    /\ schemaOut[1].err = <<>>
    /\ wire = <<>>
    /\ \E order \in Ranges(schemaOut[1].schema[1]) :
           wire' = <<convertToOpenAISchema(schemaOut[1].schema[1], order)>>
    /\ UNCHANGED <<rtype, schemaOut, doVars, llmVars, apiVars>>

NextSchema == Derive \/ Convert

SpecSchema == InitSchema /\ [][NextSchema]_vars

-----------------------------------------------------------------------------
(* openai.Completions: building the request *)

\* Longest list of input messages.
MaxMessages == 2

\* The base URLs of the configurations: the default, the same with a trailing
\* slash, and one with a control character in it (no URL).
BaseURLs ==
    {<<"https://api.deepseek.com/v1">>, <<"https://api.deepseek.com/v1", "/">>,
     <<"https://api.deepseek.com", "\t", "/v1">>}

\* Values of the float32 Temperature: a number in range, and NaN (which New's
\* range test lets pass, and which has no JSON form).
Temperatures == {"0.7", "NaN"}

\* The llmConfig values an openai is built with.
Configs ==
    {[Debug |-> d, BaseURL |-> u, APIKey |-> "test-key", Model |-> "deepseek-chat",
      Temperature |-> t, StructuredOutputSupported |-> f] :
        d \in BOOLEAN, u \in BaseURLs, t \in Temperatures, f \in BOOLEAN}

\* The message lists Completions is called with: n = 0..MaxMessages messages.
MessageLists == UNION {[1..n -> {"m1", "m2"}] : n \in 0..MaxMessages}

\* The schemas it is called with: those Do derives for its record types.
Schemas == {typeToSchema(t).schema[1] : t \in {Reply, intResponse, Inner, Unit}}

RECURSIVE TrimRight(_, _)
\* strings.TrimRight(s, cut) for a one-character cutset.
TrimRight(s, cut) ==
    IF Len(s) > 0 /\ s[Len(s)] = cut THEN TrimRight(SubSeq(s, 1, Len(s) - 1), cut) ELSE s

\* url := baseURL + "/chat/completions"
url(cfg) == TrimRight(cfg.BaseURL, "/") \o <<"/chat/completions">>

SystemPrompt ==
    "You are a helpful assistant that provides structured output. Your response must be a valid JSON object."

\* The system turn, then one user turn per message, in order.
chatMessages(msgs) ==
    <<[role |-> "system", content |-> Str(SystemPrompt)]>>
    \o [k \in 1..Len(msgs) |-> [role |-> "user", content |-> Str(msgs[k])]]

\* fmt prints a map's entries sorted by key: the keys of a wire map, and the
\* property names of the schemas, in that order.
FmtKeys ==
    <<"additionalProperties", "description", "enum", "items", "properties", "required",
      "type">>

FmtNames == <<Str("Age"), Str("Value"), Str("message"), Str("name"), Str("score")>>

RECURSIVE FmtList(_)
\* The elements of a []string as %v prints them, a space between neighbours.
FmtList(list) ==
    IF Len(list) = 0 THEN <<>>
    ELSE list[1] \o (IF Len(list) > 1 THEN <<" ">> ELSE <<>>) \o FmtList(Tail(list))

RECURSIVE Fmt(_)
RECURSIVE FmtEntries(_, _)
RECURSIVE FmtProperties(_, _)

\* fmt.Sprintf("%v", m) for the map convertToOpenAISchema returns.
Fmt(w) ==
    <<"map[">> \o FmtEntries(w, SelectSeq(FmtKeys, LAMBDA k : k \in DOMAIN w)) \o <<"]">>

FmtEntries(w, keys) ==
    IF Len(keys) = 0 THEN <<>>
    ELSE LET k == keys[1]
             v == CASE k = "type" -> <<w[k]>>
                    [] k = "description" -> w[k]
                    [] k = "enum" -> <<"[">> \o FmtList(w[k]) \o <<"]">>
                    [] k = "items" -> Fmt(w[k])
                    [] k = "properties" ->
                         <<"map[">>
                         \o FmtProperties(w[k], SelectSeq(FmtNames, LAMBDA n : n \in DOMAIN w[k]))
                         \o <<"]">>
                    [] k = "required" -> <<"[">> \o FmtList(w[k]) \o <<"]">>
                    [] k = "additionalProperties" -> <<"false">>
         IN <<k, ":">> \o v \o (IF Len(keys) > 1 THEN <<" ">> ELSE <<>>)
            \o FmtEntries(w, Tail(keys))

FmtProperties(props, names) ==
    IF Len(names) = 0 THEN <<>>
    ELSE names[1] \o <<":">> \o Fmt(props[names[1]])
         \o (IF Len(names) > 1 THEN <<" ">> ELSE <<>>)
         \o FmtProperties(props, Tail(names))

\* The content of the extra user turn: the instruction around the schema text.
Instruction(w) ==
    <<"You must format your response as a JSON object following this schema: \n">>
    \o Fmt(w) \o <<"\nDo not include any other text in your response.">>

\* responseFormat with the schema sent in both modes.
responseFormatSchemaAlways(cfg, w) ==
    IF cfg.StructuredOutputSupported
    THEN [type |-> "json_schema",
          json_schema |-> [name |-> "response", strict |-> TRUE, schema |-> w]]
    ELSE [type |-> "json_object",
          json_schema |-> [name |-> "response", strict |-> TRUE, schema |-> w]]

\* reqBody["response_format"], by the capability flag.
responseFormat(cfg, w) ==
    IF cfg.StructuredOutputSupported
    THEN [type |-> "json_schema",
          json_schema |-> [name |-> "response", strict |-> TRUE, schema |-> w]]
    ELSE [type |-> "json_object"]

\* requestMessages with the instruction turn put right after the system turn.
requestMessagesInstructFirst(cfg, msgs, w) ==
    IF cfg.StructuredOutputSupported
    THEN chatMessages(msgs)
    ELSE <<chatMessages(msgs)[1], [role |-> "user", content |-> Instruction(w)]>>
         \o Tail(chatMessages(msgs))

\* reqBody["messages"]: chatMessages, and with the flag unset one more user turn.
requestMessages(cfg, msgs, w) ==
    IF cfg.StructuredOutputSupported
    THEN chatMessages(msgs)
    ELSE Append(chatMessages(msgs), [role |-> "user", content |-> Instruction(w)])

\* The reqBody map for the wire schema w.
BuildReqBody(cfg, msgs, w) ==
    [model |-> cfg.Model,
     temperature |-> cfg.Temperature,
     provider |-> [require_parameters |-> TRUE],
     response_format |-> responseFormat(cfg, w),
     messages |-> requestMessages(cfg, msgs, w)]

\* An error of Completions: its message, the status code it quotes (0: none)
\* and the body it quotes (optional).
LLMErr(msg, status, body) == [msg |-> msg, status |-> status, body |-> body]

\* json.Marshal(reqBody): the JSON text of the map, or an error for a float
\* that JSON cannot express.
Marshal(body) ==
    IF body.temperature = "NaN"
    THEN [bytes |-> <<>>, err |-> <<LLMErr("marshal request body", 0, <<>>)>>]
    ELSE [bytes |-> <<[json |-> body]>>, err |-> <<>>]

\* http.NewRequestWithContext(ctx, "POST", url, body) and the two headers; a
\* URL with a control character does not parse.
NewRequest(cfg, bytes) ==
    IF \E k \in 1..Len(url(cfg)) : url(cfg)[k] = "\t"
    THEN [req |-> <<>>, err |-> <<LLMErr("create request", 0, <<>>)>>]
    ELSE [req |-> <<[method |-> "POST", url |-> url(cfg),
                     header |-> [ContentType |-> "application/json",
                                 Authorization |-> <<"Bearer ", cfg.APIKey>>],
                     body |-> bytes]>>,
          err |-> <<>>]

-----------------------------------------------------------------------------
(* openai.Completions: the response *)

\* http.StatusOK
StatusOK == 200

\* Status codes of the provider's responses.
StatusCodes == {200, 201, 204, 400, 500}

\* Response bodies: an envelope with one choice, with two, with none, and text
\* that is no JSON.
Envelope(choices) == [valid |-> TRUE, choices |-> choices]

NotJSON == [valid |-> FALSE, choices |-> <<>>]

Bodies == {Envelope(<<"answer">>), Envelope(<<"answer", "other">>), Envelope(<<>>), NotJSON}

\* What o.hc.Do and the read of the body give: a transport error, a response
\* whose body cannot be read, or a response with its status and body.
HTTPResults ==
    {[err |-> <<"context canceled">>, status |-> 0, readErr |-> FALSE, body |-> NotJSON]}
    \cup {[err |-> <<>>, status |-> c, readErr |-> TRUE, body |-> NotJSON] : c \in StatusCodes}
    \cup {[err |-> <<>>, status |-> c, readErr |-> FALSE, body |-> b] :
             c \in StatusCodes, b \in Bodies}

Failed(e) == [text |-> <<>>, err |-> <<e>>]

\* What Completions returns for the result r of the HTTP exchange.
Respond(r) ==
    IF r.err # <<>> THEN Failed(LLMErr("send request", 0, <<>>))
    ELSE IF r.readErr THEN Failed(LLMErr("read response body", 0, <<>>))
    ELSE IF r.status # StatusOK
    THEN Failed(LLMErr("unexpected status code", r.status, <<r.body>>))
    ELSE IF ~r.body.valid THEN Failed(LLMErr("unmarshal response", 0, <<>>))
    ELSE IF Len(r.body.choices) = 0 THEN Failed(LLMErr("no choices in response", 0, <<>>))
    ELSE [text |-> <<r.body.choices[1]>>, err |-> <<>>]

\* The exchange got past lines 122-134: no transport error, the body read, and
\* the status 200.
PastStatusCheck(r) == r.err = <<>> /\ ~r.readErr /\ r.status = StatusOK

-----------------------------------------------------------------------------
(* openai.Completions: the debug output *)

\* The test guarding both outputs with its guard always true.
DebuggingAlways(cfg) == TRUE

\* if o.config.Debug
Debugging(cfg) == cfg.Debug

\* Lines 111-117: the headline and the curl command with the URL, the key and
\* the request body in it.
PrintedCurl(cfg, bytes) ==
    <<[text |-> "Generated curl command:", arg |-> <<>>],
      [text |-> "curl -X POST",
       arg |-> <<[url |-> url(cfg), key |-> cfg.APIKey, data |-> bytes]>>]>>

\* Lines 137-138: the headline and the response body.
PrintedResponse(body) ==
    <<[text |-> "Response:", arg |-> <<>>], [text |-> "body", arg |-> <<body>>]>>

-----------------------------------------------------------------------------
(* One call of openai.Completions *)

InitLLM ==
    /\ retry = [c \in {First} |-> 0]
    /\ DoIdle
    /\ APIIdle
    /\ SchemaIdle
    /\ config \in {<<cfg>> : cfg \in Configs}
    /\ messages = <<>>
    /\ responseSchema = <<>>
    /\ lpc = "idle"
    /\ reqBody = <<>>
    /\ posts = <<>>
    /\ resp = <<>>
    /\ completion = <<>>
    /\ ranged = <<>>
    /\ sink = <<>>
    /\ prev = <<>>

\* o.Completions(ctx, msgs, s) is called.
CompletionsCall ==
    /\ lpc = "idle"
    /\ \E msgs \in MessageLists, s \in Schemas :
           /\ messages' = msgs
           /\ responseSchema' = <<s>>
    /\ lpc' = "build"
    /\ UNCHANGED <<config, reqBody, posts, resp, completion, ranged, sink, prev, doVars,
                   schemaVars, apiVars>>

\* Lines 54-118: the request body is built and marshalled and the request
\* made; an error of either step is returned; with Debug set the request is
\* printed as a curl command.
BuildRequest ==
    /\ lpc = "build"
    /\ \E order \in Ranges(responseSchema[1]) :
           /\ ranged' = <<order>>
           /\ reqBody' = <<BuildReqBody(config[1], messages,
                                        convertToOpenAISchema(responseSchema[1], order))>>
    /\ LET m == Marshal(reqBody'[1])
           r == NewRequest(config[1], m.bytes)
       IN IF m.err # <<>>
          THEN completion' = <<Failed(m.err[1])>> /\ lpc' = "done" /\ sink' = sink
          ELSE IF r.err # <<>>
          THEN completion' = <<Failed(r.err[1])>> /\ lpc' = "done" /\ sink' = sink
          ELSE /\ completion' = completion
               /\ lpc' = "send"
               /\ sink' = IF Debugging(config[1])
                          THEN sink \o PrintedCurl(config[1], m.bytes)
                          ELSE sink
    /\ UNCHANGED <<config, messages, responseSchema, posts, resp, prev, doVars,
                   schemaVars, apiVars>>

\* resp, err := o.hc.Do(req), and the read of the body.
Send ==
    /\ lpc = "send"
    /\ posts' = Append(posts, NewRequest(config[1], Marshal(reqBody[1]).bytes).req[1])
    /\ \E r \in HTTPResults : resp' = <<r>>
    /\ lpc' = "receive"
    /\ UNCHANGED <<config, messages, responseSchema, reqBody, completion, ranged, sink,
                   prev, doVars, schemaVars, apiVars>>

\* Lines 122-155: the error, the status and the envelope decide what is
\* returned; with Debug set the body of a response with status 200 is printed.
Receive ==
    /\ lpc = "receive"
    /\ completion' = <<Respond(resp[1])>>
    /\ sink' = IF Debugging(config[1]) /\ PastStatusCheck(resp[1])
               THEN sink \o PrintedResponse(resp[1].body)
               ELSE sink
    /\ lpc' = "done"
    /\ UNCHANGED <<config, messages, responseSchema, reqBody, posts, resp, ranged, prev,
                   doVars, schemaVars, apiVars>>

NextLLM == CompletionsCall \/ BuildRequest \/ Send \/ Receive

SpecLLM == InitLLM /\ [][NextLLM]_vars

-----------------------------------------------------------------------------
(* Two calls of openai.Completions with the same messages and schema *)

\* What is kept of a finished call.
Finished ==
    [config |-> config[1], reqBody |-> reqBody, resp |-> resp, completion |-> completion[1],
     ranged |-> ranged, sink |-> sink, posts |-> posts]

\* The call is made again with the same messages and schema (the next attempt
\* of a Do call), on the same openai or on one whose config differs in Debug
\* alone.
SecondCall ==
    /\ lpc = "done"
    /\ prev = <<>>
    /\ prev' = <<Finished>>
    /\ config' \in {config, <<[config[1] EXCEPT !.Debug = ~@]>>}
    /\ lpc' = "build"
    /\ reqBody' = <<>>
    /\ resp' = <<>>
    /\ completion' = <<>>
    /\ ranged' = <<>>
    /\ UNCHANGED <<messages, responseSchema, posts, sink, doVars, schemaVars, apiVars>>

\* The first call's exchange: the transport does what it does.
FirstSend == prev = <<>> /\ Send

\* The second call's exchange: the transport behaves as it did for the first.
SendAgain ==
    /\ lpc = "send"
    /\ prev # <<>>
    /\ prev[1].resp # <<>>
    /\ posts' = Append(posts, NewRequest(config[1], Marshal(reqBody[1]).bytes).req[1])
    /\ resp' = prev[1].resp
    /\ lpc' = "receive"
    /\ UNCHANGED <<config, messages, responseSchema, reqBody, completion, ranged, sink,
                   prev, doVars, schemaVars, apiVars>>

NextPair ==
    CompletionsCall \/ BuildRequest \/ FirstSend \/ Receive \/ SecondCall \/ SendAgain

SpecPair == InitLLM /\ [][NextPair]_vars

-----------------------------------------------------------------------------
(* Properties of the retry loop *)

Max0(n) == IF n > 0 THEN n ELSE 0

\* Do got past its checks of ret and the schema resolution: it entered the loop.
Looped(p) == pc[p] \in {"loop", "done"} /\ sche[p] # <<>>

\* Do returned after entering the loop.
Returned(p) == pc[p] = "done" /\ sche[p] # <<>>

\* e is the error of the given attempt, in which Completions returned out: the
\* Completions error itself, or the decode error wrapped around the raw text.
IsErrorOf(e, out, attempt) ==
    /\ e.attempt = attempt
    /\ IF out.err # <<>>
       THEN e.msg = out.err[1] /\ e.raw = <<>>
       ELSE e.msg = "unmarshal response" /\ e.raw = out.text

\* C1 (as claimed): a Do call makes at most max(Retry, 0) + 1 Completions
\* calls, and a client with Retry <= 0 makes exactly one attempt, also when that
\* attempt fails.
C1_AtMostRetryPlusOne ==
    \A p \in Procs :
        Looped(p) => calls[p] - 1 <= Max0(retry[cli[p]])

\* C2 (as claimed): against a transport that fails k times and then succeeds,
\* with budget r >= 0: r >= k gives success from attempt k+1 and no attempt
\* k+2; r < k gives the error of attempt r+1, the last one permitted.  A Do that
\* returned nil after k failures met such a transport, so k <= r; a Do that
\* returned an error met a transport with k > r, after exactly r+1 attempts.
C2_FailKThenSucceed ==
    \A p \in Procs :
        (Returned(p) /\ retry[cli[p]] \in 0..MaxRetry) =>
            IF okAt[p] # 0
            THEN /\ okAt[p] - 1 <= retry[cli[p]]
                 /\ calls[p] = okAt[p]
                 /\ result[p] = <<>>
            ELSE /\ calls[p] = retry[cli[p]] + 1
                 /\ result[p] # <<>>
                 /\ IsErrorOf(result[p][1], lastOut[p][1], retry[cli[p]] + 1)

\* C3: Do returns nil at the first attempt whose Completions call returns text
\* that decodes into the target, and makes no Completions call after it.
C3_ReturnsAtFirstSuccess ==
    \A p \in Procs :
        okAt[p] # 0 =>
            /\ pc[p] = "done"
            /\ result[p] = <<>>
            /\ calls[p] = okAt[p]

\* C3 witness: a Do that returned nil from its second attempt, after a failure.
C3_Witness ==
    \E p \in Procs :
        /\ pc[p] = "done"
        /\ okAt[p] = 2
        /\ calls[p] = 2
        /\ Cardinality(seen[p]) = 2
        /\ result[p] = <<>>

\* C4: when every attempt of a Do call failed, Do returns a non-nil error, and
\* it is the error of the last attempt made: the error Completions returned
\* then, or the decode error of the text it returned then.
C4_LastErrorReturned ==
    \A p \in Procs :
        (Returned(p) /\ calls[p] >= 1 /\ okAt[p] = 0) =>
            /\ result[p] # <<>>
            /\ IsErrorOf(result[p][1], lastOut[p][1], calls[p])

\* C4 witness: a Do whose three attempts failed in different ways and that
\* returned the third attempt's error.
C4_Witness ==
    \E p \in Procs :
        /\ Returned(p)
        /\ okAt[p] = 0
        /\ calls[p] = 3
        /\ Cardinality(seen[p]) = 3
        /\ result[p] # <<>>
        /\ result[p][1].attempt = 3

\* C5: a text that does not decode costs one attempt of the loop, like a
\* Completions error, and Do gives up only when the loop has run out; when every
\* attempt returned the same undecodable text, Do returns the decode error, and
\* the error carries that text.
C5_DecodeFailureRetried ==
    \A p \in Procs :
        (Looped(p) /\ okAt[p] = 0) =>
            /\ i[p] = calls[p]
            /\ pc[p] = "done" => ~InLoop(p)
            /\ \A x \in Texts :
                   (pc[p] = "done" /\ seen[p] = {[err |-> <<>>, text |-> <<x>>]}) =>
                       /\ result[p] # <<>>
                       /\ result[p][1].msg = "unmarshal response"
                       /\ result[p][1].raw = <<x>>

\* C5 witness: the provider answered the type-mismatched text on each of two
\* or more attempts, and Do returned the decode error quoting it.
C5_Witness ==
    \E p \in Procs :
        /\ pc[p] = "done"
        /\ decodes[p] = calls[p]
        /\ calls[p] >= 2
        /\ seen[p] = {[err |-> <<>>, text |-> <<TextMismatch>>]}
        /\ result[p] # <<>>
        /\ result[p][1].raw = <<TextMismatch>>

\* C6 (as claimed): after Do returned nil the target holds what the text of
\* the successful attempt decodes to, and nothing an earlier, failed decode of
\* the same call wrote: the target is as if that text alone had been decoded
\* into the record the caller passed.  (Stated for clients with a retry count
\* of 1 or more.)
C6_TargetFromSuccessfulTextOnly ==
    \A p \in Procs :
        (pc[p] = "done" /\ okAt[p] # 0 /\ retry[cli[p]] \in 1..MaxRetry) =>
            target[p] = Unmarshal(lastOut[p][1].text[1], ElemType(p), target0[p]).target

\* C7: when every attempt failed in Completions itself (no text came back), the
\* target is as it was when Do was called.
C7_TargetUntouched ==
    \A p \in Procs :
        (Returned(p) /\ decodes[p] = 0) => target[p] = target0[p]

\* C7 witness: two or more attempts, all failed in Completions, and the
\* caller's earlier field values are still there.
C7_Witness ==
    \E p \in Procs :
        /\ Returned(p)
        /\ calls[p] >= 2
        /\ decodes[p] = 0
        /\ result[p] # <<>>
        /\ ret[p] = "&Reply{}"
        /\ target[p] = [Message |-> "old", Score |-> "1"]

-----------------------------------------------------------------------------
(* Properties of the target check and of the schema cache *)

\* ret is not a pointer, or the type it points to is not a record type.
InvalidTarget(r) ==
    \/ r.Type.Kind # "ptr"
    \/ r.Type.Elem[1].Kind # "struct"

\* ret is a pointer with a pointee, and the pointee is a record.
ValidTarget(r) == r.Type.Kind = "ptr" /\ ~r.IsNil /\ r.Type.Elem[1].Kind = "struct"

\* C8 (as claimed): for a target that is not a pointer, or is a pointer to
\* something that is not a record (a primitive, a sequence, another pointer), Do
\* returns an InvalidTarget error, resolves no schema, calls Completions never
\* and leaves the target as it was.
C8_InvalidTargetRejected ==
    \A p \in Procs :
        (pc[p] # "idle" /\ InvalidTarget(RetDef(ret[p]))) =>
            /\ pc[p] = "done"
            /\ result[p] # <<>>
            /\ result[p][1].msg \in {"ret must be a pointer", "ret must be a pointer to struct"}
            /\ sche[p] = <<>>
            /\ calls[p] = 0
            /\ target[p] = target0[p]

\* The record type's schema derivation succeeds / fails.
Derivable(k) == typeToSchema(TypeOfKey(k)).err = <<>>

\* C9: when typeToSchema fails for the target's record type, Do returns that
\* error without any Completions call, whatever the retry count, and the cache
\* gets no entry for the type: every Do on the type ends this way.
C9_UnsupportedTypeNotRetried ==
    /\ \A c \in Clients, k \in TypeKeys :
           ~Derivable(k) => k \notin DOMAIN schemaCache[c] /\ hits[c][k] = 0
    /\ \A p \in Procs :
           (pc[p] # "idle" /\ ValidTarget(RetDef(ret[p]))
                /\ ~Derivable(Key(ElemType(p)))) =>
               /\ pc[p] \in {"load", "reflect", "done"}
               /\ calls[p] = 0
               /\ sche[p] = <<>>
               /\ pc[p] = "done" =>
                      /\ result[p] # <<>>
                      /\ result[p][1].msg = "unsupported type"
                      /\ result[p][1].detail = "map"

\* C9 witness: the second Do on the unsupported type, on a client that retries,
\* has failed again like the first.
C9_Witness ==
    \E p \in Procs :
        /\ pc[p] = "done"
        /\ ret[p] = "&Lookup{}"
        /\ retry[cli[p]] >= 1
        /\ reflected[cli[p]]["Lookup"] = 2
        /\ result[p] # <<>>
        /\ result[p][1].msg = "unsupported type"
        /\ calls[p] = 0

\* What C10 says of one record type k on client c: the Reflector ran at most
\* once for it, its result is in the cache from then on, later Do calls found
\* it there, and every Completions call got the schema first derived.
CachedOnce(c, k) ==
    /\ reflected[c][k] <= 1
    /\ hits[c][k] > 0 => reflected[c][k] = 1
    /\ reflected[c][k] = 1 =>
           /\ k \in DOMAIN schemaCache[c]
           /\ k \in DOMAIN derived[c]
           /\ schemaCache[c][k] = derived[c][k]
    /\ \A p \in Procs :
           (cli[p] = c /\ Looped(p) /\ Key(ElemType(p)) = k) =>
               /\ reflected[c][k] = 1
               /\ sche[p] = <<derived[c][k]>>
               /\ passed[p] # <<>> => passed[p] = <<derived[c][k]>>

\* C10 (as claimed, for every record type): the first Do for a record type
\* invokes the Reflector, and no later Do for the same type on the client
\* invokes it again, whatever the outcome of those calls.
C10_ReflectorRunsOncePerType ==
    \A c \in Clients, k \in TypeKeys :
        /\ reflected[c][k] <= 1
        /\ Derivable(k) => CachedOnce(c, k)

\* C10 (amended): the same, for every record type whose schema derivation
\* succeeds.
C10_DerivableTypeCachedOnce ==
    \A c \in Clients, k \in TypeKeys : Derivable(k) => CachedOnce(c, k)

\* C10 witness: the third Do for one type on a client; the two after the first
\* found the schema in the cache, and Completions got the schema first derived.
C10_Witness ==
    \E p \in Procs :
        /\ ret[p] = "&Reply{}"
        /\ reflected[cli[p]]["Reply"] = 1
        /\ hits[cli[p]]["Reply"] = 2
        /\ calls[p] >= 1
        /\ passed[p] = <<derived[cli[p]]["Reply"]>>

-----------------------------------------------------------------------------
(* Properties of concurrent Do calls *)

\* C11: under every interleaving of Do calls of two goroutines on one client,
\* a goroutine at its cache Load or at its derivation and Store can take that
\* step whatever the other goroutine is doing (it waits for nobody, of the same
\* type or another); the Reflector may run more than once for a type, but every
\* schema passed to Completions equals the Reflector's result for the target's
\* type, and once a Do for a derivable type is past its Store the cache holds
\* that schema under the type.
C11_ConcurrentCacheBenign ==
    \A p \in Procs :
        /\ pc[p] = "load" => ENABLED DoLoad(p)
        /\ pc[p] = "reflect" => ENABLED DoReflect(p)
        /\ passed[p] # <<>> => passed[p] = typeToSchema(ElemType(p)).schema
        /\ Looped(p) =>
               /\ Key(ElemType(p)) \in DOMAIN schemaCache[cli[p]]
               /\ schemaCache[cli[p]][Key(ElemType(p))] = typeToSchema(ElemType(p)).schema[1]

\* C11 witness: both goroutines made a first call for the same type, both
\* invoked the Reflector, and both have called Completions with its result.
C11_Witness ==
    /\ \A p \in Procs : ret[p] = "&Reply{}" /\ calls[p] >= 1 /\ passed[p] # <<>>
    /\ reflected[First]["Reply"] = 2
    /\ hits[First]["Reply"] = 0
    /\ DOMAIN schemaCache[First] = {"Reply"}

-----------------------------------------------------------------------------
(* Properties of typeToSchema *)

\* typeToSchema has returned a schema for the record type rtype.
DerivedOk == schemaOut # <<>> /\ schemaOut[1].err = <<>>

FieldsOf(t) == {t.Fields[k] : k \in 1..Len(t.Fields)}

\* A field the spec calls included: exported, and its wire-name annotation is
\* not exactly `-`.
Included(f) == f.PkgPath = "" /\ f.json # Str("-")

\* The key the spec gives an included field: the wire-name annotation up to its
\* first comma when there is an annotation, the declared name otherwise.
ClaimedKey(f) == IF f.json = Empty THEN Str(f.Name) ELSE Split(f.json, ",")[1]

\* The fields whose schema the properties of s hold: included, with their key
\* in the mapping, and no later included field under the same key.
Holders(t, s) ==
    {k \in 1..Len(t.Fields) :
        /\ Included(t.Fields[k])
        /\ ClaimedKey(t.Fields[k]) \in DOMAIN s.ObjectProperties
        /\ \A j \in (k + 1)..Len(t.Fields) :
               Included(t.Fields[j]) => ClaimedKey(t.Fields[j]) # ClaimedKey(t.Fields[k])}

RECURSIVE Nodes(_, _)
\* The places of the type tree of t0 with the schema derived at each place:
\* the type itself (pointers unwrapped), the element of a sequence with the
\* items schema, a field's type with the schema under the field's key.
Nodes(t0, s) ==
    LET t == Deref(t0)
    IN {[type |-> t, schema |-> s]}
       \cup (IF t.Kind \in {"slice", "array"} /\ s.ArrayItems # <<>>
             THEN Nodes(t.Elem[1], s.ArrayItems[1]) ELSE {})
       \cup (IF t.Kind = "struct"
             THEN UNION {Nodes(t.Fields[k].Type,
                               s.ObjectProperties[ClaimedKey(t.Fields[k])]) :
                            k \in Holders(t, s)}
             ELSE {})

\* The record places of the input type, each with its object schema.
RecordNodes ==
    {n \in Nodes(rtype[1], schemaOut[1].schema[1]) : n.type.Kind = "struct"}

\* The integer types of the language: int, uint, their sized forms, uintptr.
IntegerKinds == IntKinds \cup {"uintptr"}

RECURSIVE Representable(_)
\* t is built only from textual, floating-point, integer and boolean types,
\* sequences of them, records of them and pointers to them.
Representable(t0) ==
    LET t == Deref(t0)
    IN \/ t.Kind \in {"string", "bool"} \cup FloatKinds \cup IntegerKinds
       \/ t.Kind \in {"slice", "array"} /\ Representable(t.Elem[1])
       \/ t.Kind = "struct" /\ \A f \in FieldsOf(t) : Representable(f.Type)

RECURSIVE DistinctKeys(_)
\* No two included fields of a record of t have the same key.
DistinctKeys(t0) ==
    LET t == Deref(t0)
    IN /\ t.Kind \in {"slice", "array"} => DistinctKeys(t.Elem[1])
       /\ t.Kind = "struct" =>
              /\ \A m, n \in 1..Len(t.Fields) :
                     (m # n /\ Included(t.Fields[m]) /\ Included(t.Fields[n]))
                         => ClaimedKey(t.Fields[m]) # ClaimedKey(t.Fields[n])
              /\ \A f \in FieldsOf(t) : Included(f) => DistinctKeys(f.Type)

RECURSIVE TreeMatches(_, _)
\* The kind tree of schema s matches the type tree of t0 field for field.
TreeMatches(t0, s) ==
    LET t == Deref(t0)
        leaf == s.ArrayItems = <<>> /\ DOMAIN s.ObjectProperties = {}
    IN CASE t.Kind = "string" -> s.Type = "string" /\ leaf
         [] t.Kind \in FloatKinds -> s.Type = "number" /\ leaf
         [] t.Kind \in IntegerKinds -> s.Type = "integer" /\ leaf
         [] t.Kind = "bool" -> s.Type = "boolean" /\ leaf
         [] t.Kind \in {"slice", "array"} ->
              /\ s.Type = "array"
              /\ s.ArrayItems # <<>>
              /\ DOMAIN s.ObjectProperties = {}
              /\ TreeMatches(t.Elem[1], s.ArrayItems[1])
         [] t.Kind = "struct" ->
              /\ s.Type = "object"
              /\ s.ArrayItems = <<>>
              /\ Cardinality(DOMAIN s.ObjectProperties)
                     = Cardinality({k \in 1..Len(t.Fields) : Included(t.Fields[k])})
              /\ \A f \in FieldsOf(t) :
                     Included(f) =>
                         /\ ClaimedKey(f) \in DOMAIN s.ObjectProperties
                         /\ TreeMatches(f.Type, s.ObjectProperties[ClaimedKey(f)])
         [] OTHER -> FALSE

\* C12 (as claimed): for every record type built only from textual,
\* floating-point, integer (every integer type of the language) and boolean
\* types, sequences, nested records and pointers, typeToSchema returns a schema,
\* and its kind tree matches the type tree field for field.  (Stated for the
\* records whose included fields have different keys.)
C12_KindTreeMatchesType ==
    (schemaOut # <<>> /\ Representable(rtype[1]) /\ DistinctKeys(rtype[1])) =>
        /\ schemaOut[1].err = <<>>
        /\ TreeMatches(rtype[1], schemaOut[1].schema[1])

Visible(t) == StructOf(t.Name, SelectSeq(t.Fields, Included))

\* C14: in every record of the input type, at any depth, a field that is
\* unexported or tagged exactly `-` puts no key into the derived properties
\* (the properties are those of the record without these fields), and every
\* other declared field has its key there.
C14_ExcludedFieldsAbsent ==
    DerivedOk =>
        \A n \in RecordNodes :
            /\ \A f \in FieldsOf(n.type) :
                   (~Included(f) /\ \A g \in FieldsOf(n.type) :
                                        Included(g) => ClaimedKey(g) # ClaimedKey(f))
                       => ClaimedKey(f) \notin DOMAIN n.schema.ObjectProperties
            /\ \A f \in FieldsOf(n.type) :
                   Included(f) => ClaimedKey(f) \in DOMAIN n.schema.ObjectProperties
            /\ n.schema.ObjectProperties
                   = typeToSchema(Visible(n.type)).schema[1].ObjectProperties

\* C14 witness: a record nested in a slice has an unexported field and a field
\* tagged `-`, and its properties hold only its third field.
C14_Witness ==
    /\ DerivedOk
    /\ rtype[1].Fields[1].Type = SliceOf(Guarded)
    /\ \E n \in RecordNodes :
           n.type = Guarded /\ DOMAIN n.schema.ObjectProperties = {Str("Ok")}

RECURSIVE JoinComma(_)
\* The pieces put together again with a comma between neighbours.
JoinComma(pieces) ==
    IF Len(pieces) = 0 THEN Empty
    ELSE IF Len(pieces) = 1 THEN pieces[1]
    ELSE pieces[1] \o <<",">> \o JoinComma(Tail(pieces))

\* C15: the schema of a field of string kind with a non-empty enum annotation
\* has as its enum the annotation's comma-separated pieces in their order (no
\* piece holds a comma, and joined by commas they give the annotation back); the
\* schema of a field of any other kind has no enum, annotated or not.
C15_EnumOnlyOnStrings ==
    DerivedOk =>
        \A n \in RecordNodes :
            \A k \in Holders(n.type, n.schema) :
                LET f == n.type.Fields[k]
                    p == n.schema.ObjectProperties[ClaimedKey(f)]
                IN /\ (Deref(f.Type).Kind = "string" /\ f.enum # Empty) =>
                          /\ Len(p.Enum) >= 1
                          /\ \A m \in 1..Len(p.Enum) : Index(p.Enum[m], ",", 1) = 0
                          /\ JoinComma(p.Enum) = f.enum
                   /\ Deref(f.Type).Kind # "string" => p.Enum = <<>>

\* C15 witness: an int field annotated `a,b` has no enum, and a string field
\* annotated `b,a` next to it has the enum b, a.
C15_Witness ==
    /\ DerivedOk
    /\ Len(rtype[1].Fields) = 2
    /\ rtype[1].Fields[1].Type = Prim("int")
    /\ rtype[1].Fields[1].enum = <<"a", ",", "b">>
    /\ rtype[1].Fields[1].json = Str("x")
    /\ rtype[1].Fields[1].PkgPath = ""
    /\ schemaOut[1].schema[1].ObjectProperties[Str("x")].Enum = <<>>
    /\ Str("B") \in DOMAIN schemaOut[1].schema[1].ObjectProperties
    /\ schemaOut[1].schema[1].ObjectProperties[Str("B")].Enum = <<Str("b"), Str("a")>>

RECURSIVE Offending(_)
\* The kinds outside string/float/integer/bool/sequence/record found in t0,
\* pointers unwrapped, through sequence elements and included fields.
Offending(t0) ==
    LET t == Deref(t0)
    IN IF t.Kind \in {"string", "bool"} \cup FloatKinds \cup IntegerKinds THEN {}
       ELSE IF t.Kind \in {"slice", "array"} THEN Offending(t.Elem[1])
       ELSE IF t.Kind = "struct"
       THEN UNION {Offending(f.Type) : f \in {g \in FieldsOf(t) : Included(g)}}
       ELSE {t.Kind}

\* C16 (as claimed): typeToSchema fails exactly when some included field or
\* sequence element, at any depth, has a kind outside
\* string/float/integer/bool/sequence/record; the error is UnsupportedType and
\* names such a kind, no schema comes with it, and a type of such a kind on an
\* unexported or excluded field causes no failure.
C16_FailsIffUnsupportedKind ==
    schemaOut # <<>> =>
        /\ schemaOut[1].err # <<>> <=> Offending(rtype[1]) # {}
        /\ schemaOut[1].err # <<>> =>
               /\ schemaOut[1].err[1].msg = "unsupported type"
               /\ schemaOut[1].err[1].detail \in Offending(rtype[1])
               /\ schemaOut[1].schema = <<>>

-----------------------------------------------------------------------------
(* Properties of convertToOpenAISchema *)

RECURSIVE WireNodes(_, _)
\* The places of schema s with the wire map built at each place.
WireNodes(s, w) ==
    {[schema |-> s, wire |-> w]}
    \cup (IF s.ArrayItems # <<>> /\ "items" \in DOMAIN w
          THEN WireNodes(s.ArrayItems[1], w["items"]) ELSE {})
    \cup (IF "properties" \in DOMAIN w
          THEN UNION {WireNodes(s.ObjectProperties[k], w["properties"][k]) :
                         k \in DOMAIN s.ObjectProperties \cap DOMAIN w["properties"]}
          ELSE {})

\* The wire map w is a closed object over exactly the properties of s.
ClosedObject(s, w) ==
    /\ {"properties", "required", "additionalProperties"} \subseteq DOMAIN w
    /\ DOMAIN w["properties"] = DOMAIN s.ObjectProperties
    /\ Len(w["required"]) = Cardinality(DOMAIN s.ObjectProperties)
    /\ {w["required"][m] : m \in 1..Len(w["required"])} = DOMAIN s.ObjectProperties
    /\ w["additionalProperties"] = FALSE

\* C17 (as claimed): every object schema, top-level or nested, also one with no
\* properties, has in its wire form `properties`, a `required` list that holds
\* exactly the property names, each once, and `additionalProperties` = false.
C17_ObjectsClosed ==
    wire # <<>> =>
        \A n \in WireNodes(schemaOut[1].schema[1], wire[1]) :
            n.schema.Type = schemaTypeObject => ClosedObject(n.schema, n.wire)

-----------------------------------------------------------------------------
(* Properties of openai.Completions *)

\* The capability flag of the configuration.
Flag == config[1].StructuredOutputSupported

\* The wire forms of the schema Completions was called with.
WireForms == {convertToOpenAISchema(responseSchema[1], order) :
                 order \in Ranges(responseSchema[1])}

\* C18: the turns of the request are one system turn, then the n input
\* messages as user turns in their order; with the capability flag set that is
\* all (n+1 turns), with the flag unset one more user turn follows, the last,
\* with the instruction around the text of the schema (n+2 turns).  The request
\* handed to the HTTP client has these turns in its body.
C18_TurnSequence ==
    reqBody # <<>> =>
        LET turns == reqBody[1].messages
            n == Len(messages)
        IN /\ Len(turns) = IF Flag THEN n + 1 ELSE n + 2
           /\ turns[1] = [role |-> "system", content |-> Str(SystemPrompt)]
           /\ \A k \in 1..n : turns[k + 1] = [role |-> "user", content |-> Str(messages[k])]
           /\ ~Flag =>
                  /\ turns[n + 2].role = "user"
                  /\ \E w \in WireForms : turns[n + 2].content = Instruction(w)
           /\ \A k \in 1..Len(posts) : posts[k].body = <<[json |-> reqBody[1]]>>

\* C18 witness: a request for the messages m2, m1 was sent with the flag unset:
\* four turns, the last one the instruction.
C18_Witness ==
    /\ Len(posts) = 1
    /\ ~Flag
    /\ messages = <<"m2", "m1">>
    /\ Len(posts[1].body[1].json.messages) = 4
    /\ posts[1].body[1].json.messages[3].content = Str("m1")
    /\ posts[1].body[1].json.messages[4].content[1]
           = "You must format your response as a JSON object following this schema: \n"

\* C19: the response format of the request follows the capability flag alone:
\* flag set, type json_schema with name "response", strict = true and the wire
\* form of the schema; flag unset, type json_object and nothing else.
C19_ResponseFormatByFlag ==
    reqBody # <<>> =>
        LET rf == reqBody[1].response_format
        IN IF Flag
           THEN /\ DOMAIN rf = {"type", "json_schema"}
                /\ rf.type = "json_schema"
                /\ rf.json_schema.name = "response"
                /\ rf.json_schema.strict = TRUE
                /\ rf.json_schema.schema \in WireForms
           ELSE /\ DOMAIN rf = {"type"}
                /\ rf.type = "json_object"

\* C19 witness: a request was sent with the flag set and the schema of a two-field record in the response format.
C19_Witness ==
    /\ Len(posts) = 1
    /\ Flag
    /\ posts[1].body[1].json.response_format.type = "json_schema"
    /\ "properties" \in DOMAIN posts[1].body[1].json.response_format.json_schema.schema
    /\ DOMAIN posts[1].body[1].json.response_format.json_schema.schema["properties"]
           = {Str("message"), Str("score")}

\* The success statuses of HTTP.
SuccessStatus(c) == c \in 200..299

\* C20 (as claimed): an invocation never sends a second POST and, once it has a
\* request, sends exactly one, whatever comes back; when a response came back
\* and its body was read, Completions fails with the provider error, carrying
\* the status code and the raw body, exactly when the status is not a success
\* status, and for every success status the result is that of parsing the
\* envelope.
C20_OnePostAndStatusCheck ==
    lpc = "done" =>
        /\ Len(posts) <= 1
        /\ Len(posts) = 0 <=>
               (/\ completion[1].err # <<>>
                /\ completion[1].err[1].msg \in {"marshal request body", "create request"})
        /\ (resp # <<>> /\ resp[1].err = <<>> /\ ~resp[1].readErr) =>
               /\ ~SuccessStatus(resp[1].status) <=>
                      (/\ completion[1].err # <<>>
                       /\ completion[1].err[1].msg = "unexpected status code")
               /\ ~SuccessStatus(resp[1].status) =>
                      /\ completion[1].err[1].status = resp[1].status
                      /\ completion[1].err[1].body = <<resp[1].body>>
               /\ SuccessStatus(resp[1].status) =>
                      \/ /\ resp[1].body.valid
                         /\ Len(resp[1].body.choices) > 0
                         /\ completion[1].text = <<resp[1].body.choices[1]>>
                      \/ /\ completion[1].err # <<>>
                         /\ completion[1].err[1].msg
                                \in {"unmarshal response", "no choices in response"}

\* A response came back, its body was read, and its status is a success status.
Answered ==
    /\ lpc = "done"
    /\ resp # <<>>
    /\ resp[1].err = <<>>
    /\ ~resp[1].readErr
    /\ SuccessStatus(resp[1].status)

\* C21 (as claimed): on a success status Completions returns the message text
\* of the first choice, whatever further choices there are; with zero choices it
\* fails with the empty-response error, with a body that is no JSON with the
\* envelope decode error, and in both failure cases it returns no text.
C21_FirstChoiceOrError ==
    Answered =>
        LET body == resp[1].body
            out == completion[1]
        IN /\ (body.valid /\ Len(body.choices) > 0) =>
                  /\ out.err = <<>>
                  /\ out.text = <<body.choices[1]>>
           /\ (body.valid /\ Len(body.choices) = 0) =>
                  /\ out.err # <<>>
                  /\ out.err[1].msg = "no choices in response"
                  /\ out.text = <<>>
           /\ ~body.valid =>
                  /\ out.err # <<>>
                  /\ out.err[1].msg = "unmarshal response"
                  /\ out.text = <<>>

-----------------------------------------------------------------------------
(* Properties of the convenience methods *)

\* The one field of the method's record.
ResultField(m) == ResponseOf(m).Fields[1]

\* C22: a convenience method is Do on its one-field record: Do is called once,
\* on the same client (the same retry budget), with a pointer to the zero-valued
\* record, and the Completions calls are those of that Do call; the method
\* returns when Do has returned: the record's field and no error when Do
\* returned nil, the zero value of the result type with Do's error when Do
\* returned an error, whatever an attempt decoded into the record.
C22_MethodIsDoOnOneField ==
    /\ method # "none" =>
           /\ pc[Main] # "idle"
           /\ cli[Main] = First
           /\ ret[Main] = RetFor(method)
           /\ Len(ElemType(Main).Fields) = 1
           /\ target0[Main] = ZeroRecord(ResponseOf(method))
           /\ doCount >= 1
    /\ methodOut # <<>> =>
           /\ pc[Main] = "done"
           /\ okAt[Main] # 0 => calls[Main] = okAt[Main]
           /\ okAt[Main] = 0 => ~InLoop(Main)
           /\ IF result[Main] = <<>>
              THEN /\ methodOut[1].err = <<>>
                   /\ methodOut[1].value = target[Main][ResultField(method).Name]
              ELSE /\ methodOut[1].err = result[Main]
                   /\ methodOut[1].value = ZeroValue(ResultField(method).Type)

\* C22 witness: IntSlice on a client that retries; every attempt failed, the
\* last one on an array with an element of the wrong type, which left the
\* elements 3 and 0 in resp.Values; the method returned nil and Do's error.
C22_Witness ==
    /\ method = "IntSlice"
    /\ methodOut # <<>>
    /\ calls[Main] >= 2
    /\ result[Main] # <<>>
    /\ target[Main]["Values"] = SliceValue(<<"3", "0">>)
    /\ methodOut[1].value = NilSlice
    /\ methodOut[1].err = result[Main]

-----------------------------------------------------------------------------
(* Properties of New *)

\* The temperature is a number of the inclusive range 0 to 2.
InRange(t) == t # "NaN" /\ Tenths(t) >= 0 /\ Tenths(t) <= 20

\* The client the latest New call made is the one named last.
Latest == IF DOMAIN retry = Clients THEN CHOOSE c \in Clients : c # First ELSE First

\* C23 (as claimed): New fails exactly when the API key is empty or the
\* temperature lies outside the inclusive range 0 to 2, and then returns no
\* client; otherwise it returns a client whose BaseURL and Model are the
\* defaults where the caller set none, and in which BaseURL, Model, Temperature,
\* the capability flag, Retry, Debug (and the key) are as the caller set them.
C23_NewValidatesAndDefaults ==
    made # <<>> =>
        LET cfg == given[1]
            out == made[1]
        IN /\ out.err # <<>> <=> (cfg.APIKey = "" \/ ~InRange(cfg.Temperature))
           /\ out.err # <<>> => out.client = <<>>
           /\ out.err = <<>> =>
                  /\ out.client # <<>>
                  /\ out.client[1].llm.BaseURL
                         = IF cfg.BaseURL = Empty THEN DefaultBaseURL ELSE cfg.BaseURL
                  /\ out.client[1].llm.Model
                         = IF cfg.Model = "" THEN DefaultModel ELSE cfg.Model
                  /\ out.client[1].llm.Temperature = cfg.Temperature
                  /\ out.client[1].llm.StructuredOutputSupported
                         = cfg.StructuredOutputSupported
                  /\ out.client[1].llm.Debug = cfg.Debug
                  /\ out.client[1].llm.APIKey = cfg.APIKey
                  /\ out.client[1].retry = cfg.Retry
                  /\ retry[Latest] = cfg.Retry

-----------------------------------------------------------------------------
(* Properties of Do under a cancelled context *)

\* Do has returned the transport error of its last attempt, after at least the
\* max(Retry, 0) + 1 attempts of its budget.
RanOutCancelled(p) ==
    /\ pc[p] = "done"
    /\ calls[p] - 1 >= Max0(retry[cli[p]])
    /\ i[p] = calls[p]
    /\ result[p] # <<>>
    /\ result[p][1].msg = "send request"
    /\ result[p][1].attempt = calls[p]

\* C24 (as claimed): when every Completions call fails with a transport error
\* (the context is cancelled from the start), a Do call that entered its loop
\* does not stop early: it makes every attempt of its budget, one after another,
\* and then returns the transport error of the last attempt.
C24_CancelledRunsOutBudget ==
    \A p \in Procs : Returned(p) => RanOutCancelled(p)

-----------------------------------------------------------------------------
(* Properties of the schema cache across clients *)

\* The clients other than the first.
Second == CHOOSE c \in Clients : c # First

-----------------------------------------------------------------------------
(* Properties of two Completions calls *)

\* The second of two calls with the same messages and schema has returned.
PairDone == prev # <<>> /\ lpc = "done"

\* The requests the second call handed to the HTTP client.
SecondPosts == SubSeq(posts, Len(prev[1].posts) + 1, Len(posts))

\* The two calls' configurations differ in Debug and in nothing else.
DebugAlone ==
    /\ config[1].Debug # prev[1].config.Debug
    /\ [config[1] EXCEPT !.Debug = FALSE] = [prev[1].config EXCEPT !.Debug = FALSE]

\* C26: of two runs of Completions with the same messages and schema, the same
\* transport behaviour and the same iteration order of the maps, whose
\* configurations differ in Debug alone, both hand the same requests to the HTTP
\* client (the same number of them) and return the same text or error; and a
\* run with Debug unset writes nothing to standard output.
C26_DebugNoControlFlow ==
    /\ (PairDone /\ DebugAlone /\ ranged = prev[1].ranged) =>
           /\ reqBody = prev[1].reqBody
           /\ SecondPosts = prev[1].posts
           /\ resp = prev[1].resp
           /\ completion[1] = prev[1].completion
    /\ (prev = <<>> /\ ~config[1].Debug) => sink = <<>>
    /\ (prev # <<>> /\ ~config[1].Debug) => sink = prev[1].sink

\* C26 witness: a run with Debug unset and then one with Debug set, for a
\* schema with two properties; both sent the same request and returned the
\* first choice; the first printed nothing, the second the curl command (with
\* the key in it) and the response.
C26_Witness ==
    /\ PairDone
    /\ DebugAlone
    /\ config[1].Debug
    /\ ranged = prev[1].ranged
    /\ Cardinality(DOMAIN responseSchema[1].ObjectProperties) = 2
    /\ Len(posts) = 2
    /\ posts[1] = posts[2]
    /\ completion[1].text = <<"answer">>
    /\ prev[1].sink = <<>>
    /\ Len(sink) = 4
    /\ sink[2].arg[1].key = "test-key"

-----------------------------------------------------------------------------
(* Properties of Do at the ends of its input ranges *)

\* C27 (as claimed): whatever integer the retry count is (negative, zero, the
\* largest int), a Do call with a valid target whose schema resolved makes at
\* least one attempt, and it returns nil only if some attempt completed and
\* decoded.
C27_AtLeastOneAttempt ==
    \A p \in Procs :
        Returned(p) =>
            /\ calls[p] >= 1
            /\ result[p] = <<>> => okAt[p] # 0


\* C28 (as claimed): for every destination that is not a pointer to an existing
\* record (an untyped nil, a non-pointer, a nil pointer to a record or to
\* anything else, a pointer to a non-record), Do does not crash: it returns an
\* error to the caller, and never nil.
C28_BadDestinationRejected ==
    \A p \in Procs :
        (pc[p] # "idle" /\ ~ValidTarget(RetDef(ret[p]))) =>
            /\ pc[p] # "panicked"
            /\ pc[p] = "done"
            /\ result[p] # <<>>

-----------------------------------------------------------------------------
(* Properties of the derived properties mapping *)

\* The included fields of a record type, by their position.
IncludedAt(t) == {k \in 1..Len(t.Fields) : Included(t.Fields[k])}

\* C29 (as claimed): in every record of the input type the derived properties
\* have exactly one entry per included field, each under a non-empty key: no
\* two included fields share a key and none is dropped, whatever the wire-name
\* annotations are.
C29_OneEntryPerField ==
    DerivedOk =>
        \A n \in RecordNodes :
            /\ Cardinality(DOMAIN n.schema.ObjectProperties)
                   = Cardinality(IncludedAt(n.type))
            /\ \A key \in DOMAIN n.schema.ObjectProperties : key # Empty


\* C30 (as claimed): two Completions calls with the same configuration,
\* messages and schema build identical request bodies: the same `required`
\* lists, in the same order, and the same schema text in the instruction turn.
C30_SameRequestBody ==
    (prev # <<>> /\ reqBody # <<>> /\ config[1] = prev[1].config) =>
        reqBody = prev[1].reqBody

=============================================================================
